---- MODULE Spec2Model ----
(***************************************************************************)
(* Model of the validation / aggregation / scoring pipeline of              *)
(* finance_app (src/src/finance_app/logic.py).                              *)
(*                                                                          *)
(* Amounts are integers in an arbitrary money unit.  The scorer only uses   *)
(* ratios to income, so every quantity of calculate_health_score is kept    *)
(* exactly as the numerator of a fraction over a stated denominator.        *)
(***************************************************************************)
EXTENDS Integers, Sequences, FiniteSets, TLC

VARIABLES
    args,       \* arguments of the call of calculate_health_score
    out,        \* what that call produced: nothing yet, a return value, an exception
    file,       \* the workbook handed to validate_file
    vres,       \* what validate_file produced for it
    agg,        \* what analyze_data produced for the table of vres
    ext,        \* the top wants and the environment of a call of get_ai_insights
    ins,        \* what get_ai_insights produced
    ui,         \* the front-end: income, latest upload, Analyze button, analyses
    adv,        \* the score handed to _build_fallback_advice and what it produced
    cur,        \* the lru_cache of load_currencies, its callers and the reads of the file
    sess,       \* the session state of the web page
    again       \* what a second call of analyze_data on the same table produced

vars == <<args, out, file, vres, agg, ext, ins, ui, adv, cur, sess, again>>

----------------------------------------------------------------------------
(* Bounds of the scorer's inputs. *)

\* needs and wants range over 0..MaxAmount, savings over -MaxDebt..MaxAmount
MaxAmount == 24
MaxDebt == 2

\* a negative income, zero, an income that divides nothing evenly, and an
\* income on which 50%, 30%, 20% and 75% are whole amounts
Incomes == {-20, 0, 7, 20}
Amounts == 0..MaxAmount
SavingsAmounts == (0 - MaxDebt)..MaxAmount

Max(a, b) == IF a >= b THEN a ELSE b
Min(a, b) == IF a <= b THEN a ELSE b

----------------------------------------------------------------------------
(* calculate_health_score, logic.py 182-244 *)

NoCall == [status |-> "none", value |-> 0, divs |-> 0]
Returned(v, d) == [status |-> "returned", value |-> v, divs |-> d]
Raised(d) == [status |-> "raised", value |-> 0, divs |-> d]

\* `if income <= 0: return 0`
IncomeGuard_NegativeOnly(income) == income < 0
IncomeGuard(income) == income <= 0

\* Dn = max(0, n - 0.5), as a numerator over 10*income
Dn_Symmetric(income, needs) ==
    IF 10 * needs >= 5 * income THEN 10 * needs - 5 * income
                                ELSE 5 * income - 10 * needs
Dn(income, needs) == Max(0, 10 * needs - 5 * income)

\* Dw = max(0, w - 0.3), as a numerator over 10*income
Dw(income, wants) == Max(0, 10 * wants - 3 * income)

\* Ds = max(0, 0.2 - s), as a numerator over 10*income
Ds_Symmetric(income, savings) ==
    IF 2 * income >= 10 * savings THEN 2 * income - 10 * savings
                                  ELSE 10 * savings - 2 * income
Ds(income, savings) == Max(0, 2 * income - 10 * savings)

\* score = 100 * (1 - (0.2*Dn + 0.5*Dw + 0.6*Ds)), as a numerator over income
WeightedScore(income, needs, wants, savings) ==
    100 * income
      - (2 * Dn(income, needs) + 5 * Dw(income, wants) + 6 * Ds(income, savings))

\* `if savings < 0: score = 0`, on the numerator over income
SavingsRule_Dropped(income, savings, score) == score
SavingsRule(income, savings, score) == IF savings < 0 THEN 0 ELSE score

\* `if n > 0.75: score -= 10`, on the numerator over income
NeedsRule_Skipped(income, needs, score) == score
NeedsRule(income, needs, score) ==
    IF 4 * needs > 3 * income THEN score - 10 * income ELSE score

\* `score = max(0, min(100, score))`, on the numerator over income
Clamp_UpperOnly(income, score) == Min(100 * income, score)
Clamp(income, score) == Max(0, Min(100 * income, score))

\* `int(score)` of a non-negative score: the whole part of score / income
IntOf(income, score) == score \div income

\* The three divisions of lines 217-219 raise ZeroDivisionError on income = 0.
calculate_health_score(income, needs, wants, savings) ==
    IF IncomeGuard(income) THEN Returned(0, 0)
    ELSE IF income = 0 THEN Raised(1)
    ELSE LET raw == WeightedScore(income, needs, wants, savings)
             s1  == SavingsRule(income, savings, raw)
             s2  == NeedsRule(income, needs, s1)
             s3  == Clamp(income, s2)
         IN  Returned(IntOf(income, s3), 3)

----------------------------------------------------------------------------
(* Text.  A Python str is a sequence of one-character strings. *)

Digits == {"0", "1", "2", "3", "4", "5", "6", "7", "8", "9"}
Letters == {"a", "b", "c", "d", "e", "f", "g", "h", "i", "j", "k", "l", "m",
            "n", "o", "p", "q", "r", "s", "t", "u", "v", "w", "x", "y", "z",
            "A", "B", "C", "D", "E", "F", "G", "H", "I", "J", "K", "L", "M",
            "N", "O", "P", "Q", "R", "S", "T", "U", "V", "W", "X", "Y", "Z"}

DigitVal(c) ==
    CASE c = "0" -> 0 [] c = "1" -> 1 [] c = "2" -> 2 [] c = "3" -> 3
      [] c = "4" -> 4 [] c = "5" -> 5 [] c = "6" -> 6 [] c = "7" -> 7
      [] c = "8" -> 8 [] c = "9" -> 9

DigitChar(d) ==
    CASE d = 0 -> "0" [] d = 1 -> "1" [] d = 2 -> "2" [] d = 3 -> "3"
      [] d = 4 -> "4" [] d = 5 -> "5" [] d = 6 -> "6" [] d = 7 -> "7"
      [] d = 8 -> "8" [] d = 9 -> "9"

IsSpace(c) == c = " "
AllDigits(s) == Len(s) > 0 /\ \A i \in 1..Len(s) : s[i] \in Digits
Contains(s, c) == \E i \in 1..Len(s) : s[i] = c

\* the value of a non-empty digit string
RECURSIVE NatOf(_)
NatOf(s) == IF Len(s) = 0 THEN 0
            ELSE 10 * NatOf(SubSeq(s, 1, Len(s) - 1)) + DigitVal(s[Len(s)])

\* str(n) of a natural number
RECURSIVE NatStr(_)
NatStr(n) == IF n < 10 THEN <<DigitChar(n)>>
             ELSE NatStr(n \div 10) \o <<DigitChar(n % 10)>>

\* str.strip()
RECURSIVE LStrip(_)
LStrip(s) == IF Len(s) > 0 /\ IsSpace(s[1]) THEN LStrip(Tail(s)) ELSE s
RECURSIVE RStrip(_)
RStrip(s) == IF Len(s) > 0 /\ IsSpace(s[Len(s)])
             THEN RStrip(SubSeq(s, 1, Len(s) - 1)) ELSE s
Strip(s) == RStrip(LStrip(s))

\* s.replace(c, '')
Remove(s, c) == SelectSeq(s, LAMBDA x : x # c)

\* s.split(c)[-1]: the text after the last c (all of s when it holds no c)
RECURSIVE AfterLast(_, _)
AfterLast(s, c) ==
    IF Len(s) = 0 \/ s[Len(s)] = c THEN <<>>
    ELSE AfterLast(SubSeq(s, 1, Len(s) - 1), c) \o <<s[Len(s)]>>

\* s.split(c)[0]: the text before the first c
RECURSIVE BeforeFirst(_, _)
BeforeFirst(s, c) ==
    IF Len(s) = 0 \/ s[1] = c THEN <<>>
    ELSE <<s[1]>> \o BeforeFirst(Tail(s), c)

\* the text after the first c (empty when s holds no c)
RECURSIVE AfterFirst(_, _)
AfterFirst(s, c) ==
    IF Len(s) = 0 THEN <<>>
    ELSE IF s[1] = c THEN Tail(s) ELSE AfterFirst(Tail(s), c)

\* the regular expression ^\s*$ of line 71
IsBlankText(s) == \A i \in 1..Len(s) : IsSpace(s[i])

\* str.isalnum(): at least one character, all of them letters or digits
IsAlnum(s) == Len(s) > 0 /\ \A i \in 1..Len(s) : s[i] \in Letters \cup Digits

----------------------------------------------------------------------------
(* Numbers.  A number is an integer count of ten-thousandths (Scale), so a   *)
(* cell can hold up to four digits after the decimal point.                  *)

Scale == 10 * 10 * 10 * 10
FracDigits == Len(NatStr(Scale)) - 1

\* the FracDigits digits of a fraction f (0 <= f < Scale), trailing zeros
\* removed but one digit kept: Python's shortest repr of a float
RECURSIVE DropTrailingZeros(_)
DropTrailingZeros(s) ==
    IF Len(s) > 1 /\ s[Len(s)] = "0"
    THEN DropTrailingZeros(SubSeq(s, 1, Len(s) - 1)) ELSE s

RECURSIVE PadLeft(_, _)
PadLeft(s, n) == IF Len(s) >= n THEN s ELSE PadLeft(<<"0">> \o s, n)

Abs(x) == IF x < 0 THEN 0 - x ELSE x
SignText(x) == IF x < 0 THEN <<"-">> ELSE <<>>

\* str() of a Python int holding v / Scale (v a multiple of Scale)
IntStr(v) == SignText(v) \o NatStr(Abs(v) \div Scale)

\* str() of a Python float holding v / Scale
FloatStr(v) ==
    SignText(v) \o NatStr(Abs(v) \div Scale) \o <<".">>
        \o DropTrailingZeros(PadLeft(NatStr(Abs(v) % Scale), FracDigits))

\* the fraction digits d as ten-thousandths (digits past the fourth are cut)
FracVal(d) == NatOf(SubSeq(d \o <<"0", "0", "0", "0">>, 1, FracDigits))

\* float(text): the outcome is "error" (ValueError), "nan", "inf" or "num" with
\* its value.  Python strips blanks, takes one sign, then nan / inf / digits
\* with at most one point and at least one digit.
ParseFloat(text) ==
    LET t    == Strip(text)
        neg  == Len(t) > 0 /\ t[1] = "-"
        body == IF Len(t) > 0 /\ t[1] \in {"-", "+"} THEN Tail(t) ELSE t
        ip   == BeforeFirst(body, ".")
        fp   == AfterFirst(body, ".")
        mag  == NatOf(ip) * Scale + FracVal(fp)
    IN  IF body = <<"n", "a", "n">> THEN [kind |-> "nan", val |-> 0]
        ELSE IF body = <<"i", "n", "f">>
            THEN [kind |-> "inf", val |-> IF neg THEN -1 ELSE 1]
        ELSE IF /\ \A i \in 1..Len(ip) : ip[i] \in Digits
                /\ \A i \in 1..Len(fp) : fp[i] \in Digits
                /\ Len(ip) + Len(fp) > 0
            THEN [kind |-> "num", val |-> IF neg THEN 0 - mag ELSE mag]
        ELSE [kind |-> "error", val |-> 0]

----------------------------------------------------------------------------
(* Workbooks.  load_workbook + iter_rows(values_only=True), lines 51-62: a   *)
(* cell is None, a str, a number (an int when whole, else a float) or a      *)
(* datetime.  A data row maps each header to its cell.                       *)

NoneCell == [t |-> "none", s |-> <<>>, v |-> 0]
StrCell(s) == [t |-> "str", s |-> s, v |-> 0]
NumCell(v) == [t |-> "num", s |-> <<>>, v |-> v]
DateTimeCell == [t |-> "datetime", s |-> <<>>, v |-> 0]

required_cols == <<"Date", "Name", "Type", "Amount", "Category">>
RequiredSet == {required_cols[i] : i \in 1..Len(required_cols)}

NoFile == [readable |-> FALSE, headers |-> {}, rows |-> <<>>]

----------------------------------------------------------------------------
(* pd.DataFrame(data, columns=headers), line 64: each column gets a dtype.   *)
(* A column of numbers and Nones is numeric (None becomes NaN and, with a    *)
(* None or a fraction in it, every number a float); a column of datetimes    *)
(* and Nones is datetime64 (None becomes NaT); any other column is object    *)
(* and keeps its values.                                                     *)

ColumnCells(rows, col) == {rows[i][col] : i \in 1..Len(rows)}

ColumnDtype(rows, col) ==
    LET cells == ColumnCells(rows, col)
        kinds == {c.t : c \in cells}
    IN  IF "num" \in kinds /\ kinds \subseteq {"num", "none"}
        THEN IF "none" \in kinds \/ \E c \in cells : c.t = "num" /\ c.v % Scale # 0
             THEN "float64" ELSE "int64"
        ELSE IF "datetime" \in kinds /\ kinds \subseteq {"datetime", "none"}
        THEN "datetime64"
        ELSE "object"

\* the value a cell has in the frame, given its column's dtype
FrameValue(cell, dtype) ==
    CASE cell.t = "none" ->
            [t |-> CASE dtype = "float64" -> "nan"
                     [] dtype = "datetime64" -> "nat"
                     [] OTHER -> "none",
             s |-> <<>>, v |-> 0]
      [] cell.t = "num" ->
            [t |-> IF dtype = "float64" \/ (dtype = "object" /\ cell.v % Scale # 0)
                   THEN "float" ELSE "int",
             s |-> <<>>, v |-> cell.v]
      [] OTHER -> cell

\* a frame: its column names, their dtypes and its rows, in order
DataFrame(headers, rows) ==
    [columns |-> headers,
     dtypes |-> [c \in headers |-> ColumnDtype(rows, c)],
     data |-> [i \in 1..Len(rows) |->
        [c \in headers |-> FrameValue(rows[i][c], ColumnDtype(rows, c))]]]

\* pd.isna / dropna: None, NaN, NaT and pd.NA are missing values
IsNA(x) == x.t \in {"none", "nan", "nat", "na"}

\* str(x) of a frame value
PyStr(x) ==
    CASE x.t = "str" -> x.s
      [] x.t = "int" -> IntStr(x.v)
      [] x.t = "float" -> FloatStr(x.v)
      [] x.t = "none" -> <<"N", "o", "n", "e">>
      [] x.t = "nan" -> <<"n", "a", "n">>
      [] x.t = "nat" -> <<"N", "a", "T">>
      [] x.t = "na" -> <<"<", "N", "A", ">">>
      [] x.t = "datetime" -> <<"2", "0", "2", "6", "-", "0", "1", "-", "0", "1",
                               " ", "0", "0", ":", "0", "0", ":", "0", "0">>

\* .replace(r'^\s*$', pd.NA, regex=True), line 71: only str values match
ReplaceBlank(x) ==
    IF x.t = "str" /\ IsBlankText(x.s) THEN [t |-> "na", s |-> <<>>, v |-> 0]
    ELSE x

\* .dropna(how='all'), line 72: a row is dropped when all its values are missing
DropRow_Any(r) == \E c \in DOMAIN r : IsNA(r[c])
DropRow(r) == \A c \in DOMAIN r : IsNA(r[c])

\* lines 69-74: df[required_cols].replace(...).dropna(how='all').reset_index()
\* (df[required_cols] raises KeyError when a column is missing: see Body).
\* No step changes the dtype of a column: a column that held text or blanks
\* stays object when the rows holding them are dropped.
Normalize(df) ==
    LET picked == [i \in 1..Len(df.data) |->
                      [c \in RequiredSet |-> ReplaceBlank(df.data[i][c])]]
    IN  [columns |-> RequiredSet,
         dtypes |-> [c \in RequiredSet |-> df.dtypes[c]],
         data |-> SelectSeq(picked, LAMBDA r : ~DropRow(r))]

----------------------------------------------------------------------------
(* The five field checks of validate_file, lines 84-139.  Each gives the     *)
(* messages it appends for one value (none or one).                          *)

MaxTextLen == 150

IsLeap(y) == (y % 4 = 0 /\ y % 100 # 0) \/ y % 400 = 0
DaysInMonth(m, y) ==
    CASE m \in {1, 3, 5, 7, 8, 10, 12} -> 31
      [] m \in {4, 6, 9, 11} -> 30
      [] m = 2 -> IF IsLeap(y) THEN 29 ELSE 28
      [] OTHER -> 0

\* pd.to_datetime(text, errors='coerce', format='%d<sep>%m<sep>%Y') is a date
ParsesAsDate(text, sep) ==
    LET d    == BeforeFirst(text, sep)
        rest == AfterFirst(text, sep)
        m    == BeforeFirst(rest, sep)
        y    == AfterFirst(rest, sep)
    IN  /\ Contains(text, sep) /\ Contains(rest, sep)
        /\ AllDigits(d) /\ Len(d) <= 2
        /\ AllDigits(m) /\ Len(m) <= 2
        /\ AllDigits(y) /\ Len(y) = 4
        /\ NatOf(d) >= 1 /\ NatOf(d) <= DaysInMonth(NatOf(m), NatOf(y))

\* lines 86-105
DateMessages(x) ==
    IF IsNA(x) THEN <<"Date is empty.">>
    ELSE IF x.t = "datetime" THEN <<>>
    ELSE IF x.t \in {"int", "float"} THEN <<>>
    ELSE IF ParsesAsDate(x.s, "/") \/ ParsesAsDate(x.s, "-") THEN <<>>
    ELSE <<"Invalid date format.">>

\* line 109
NameMessages(x) ==
    IF \/ IsNA(x)
       \/ x.t # "str"
       \/ Len(PyStr(x)) > MaxTextLen
       \/ ~IsAlnum(Remove(PyStr(x), " "))
    THEN <<"Invalid name.">> ELSE <<>>

Needs == <<"N", "e", "e", "d", "s">>
Wants == <<"W", "a", "n", "t", "s">>
Savings == <<"S", "a", "v", "i", "n", "g", "s">>

\* line 114: `x not in [...]` compares x == 'Needs' ...; for pd.NA each
\* comparison gives pd.NA, whose truth value raises TypeError
TypeRaises(x) == x.t = "na"
TypeMessages(x) ==
    IF x.t = "str" /\ x.s \in {Needs, Wants, Savings} THEN <<>>
    ELSE <<"Invalid type.">>

\* lines 118-134
AmountMessages(x) ==
    LET amt == ParseFloat(Remove(PyStr(x), ","))
        s   == PyStr(x)
    IN  IF amt.kind = "error" THEN <<"Invalid amount.">>
        ELSE IF amt.kind # "nan" /\ amt.val <= 0 THEN <<"Invalid amount.">>
        ELSE IF Contains(s, ".") /\ Len(AfterLast(s, ".")) > 3
            THEN <<"Invalid amount.">>
        ELSE <<>>

\* line 138
CategoryMessages(x) ==
    IF IsNA(x) \/ x.t # "str" \/ Len(PyStr(x)) > MaxTextLen
    THEN <<"Invalid category.">> ELSE <<>>

Diag(n, m) == [row |-> n, msg |-> m, detail |-> ""]

\* the diagnostics of the frame row with index idx (0-based), in code order
RowMessages(r) ==
    DateMessages(r["Date"]) \o NameMessages(r["Name"]) \o TypeMessages(r["Type"])
        \o AmountMessages(r["Amount"]) \o CategoryMessages(r["Category"])

RowDiagnostics(r, idx) ==
    LET ms == RowMessages(r)
    IN  [k \in 1..Len(ms) |-> Diag(idx + 1, ms[k])]

RECURSIVE AllDiagnostics(_, _)
AllDiagnostics(data, idx) ==
    IF idx >= Len(data) THEN <<>>
    ELSE RowDiagnostics(data[idx + 1], idx) \o AllDiagnostics(data, idx + 1)

----------------------------------------------------------------------------
(* validate_file, lines 42-147 *)

\* the result holds a table (its rows and the dtypes of its columns) only when
\* it is valid
NoDtypes == [c \in RequiredSet |-> "object"]
NoResult ==
    [status |-> "none", valid |-> FALSE, table |-> <<>>, dtypes |-> NoDtypes,
     errors |-> <<>>, caught |-> ""]
ReturnValid(df) ==
    [status |-> "returned", valid |-> TRUE, table |-> df.data,
     dtypes |-> df.dtypes, errors |-> <<>>, caught |-> ""]
ReturnErrors(errors, exc) ==
    [status |-> "returned", valid |-> FALSE, table |-> <<>>, dtypes |-> NoDtypes,
     errors |-> errors, caught |-> exc]
RaisedOut(exc) ==
    [status |-> "raised", valid |-> FALSE, table |-> <<>>, dtypes |-> NoDtypes,
     errors |-> <<>>, caught |-> exc]

\* lines 80-81
MissingColumns_NoRows(df) ==
    IF Len(df.data) > 0
       /\ \A i \in 1..Len(required_cols) : required_cols[i] \in df.columns
    THEN <<>>
    ELSE <<Diag(0, "Missing required columns.")>>
MissingColumns(df) ==
    IF \A i \in 1..Len(required_cols) : required_cols[i] \in df.columns
    THEN <<>>
    ELSE <<Diag(0, "Missing required columns.")>>

\* The body of the try block, lines 49-144: either an exception (exc # "") or
\* the value it returns.
Body(f) ==
    IF ~f.readable THEN [exc |-> "InvalidFileException", ret |-> NoResult]
    ELSE IF ~(RequiredSet \subseteq f.headers)
        THEN [exc |-> "KeyError", ret |-> NoResult]
    ELSE LET df     == Normalize(DataFrame(f.headers, f.rows))
             errors == MissingColumns(df) \o AllDiagnostics(df.data, 0)
         IN  IF \E i \in 1..Len(df.data) : TypeRaises(df.data[i]["Type"])
             THEN [exc |-> "TypeError", ret |-> NoResult]
             ELSE IF errors # <<>>
                  THEN [exc |-> "", ret |-> ReturnErrors(errors, "")]
                  ELSE [exc |-> "", ret |-> ReturnValid(df)]

\* `except Exception as e`, line 145
Catches_FileErrorsOnly(exc) == exc \in {"InvalidFileException", "KeyError"}
Catches(exc) == TRUE

\* line 147
ErrorReading(exc) ==
    <<[row |-> 0, msg |-> "Error reading file: ", detail |-> exc]>>

validate_file(f) ==
    LET b == Body(f)
    IN  IF b.exc = "" THEN b.ret
        ELSE IF Catches(b.exc) THEN ReturnErrors(ErrorReading(b.exc), b.exc)
        ELSE RaisedOut(b.exc)

----------------------------------------------------------------------------
(* The validator of the desktop front-end, src/modules/logic.py lines        *)
(* 36-121: the same checks on the frame as it was read, with no blank rows   *)
(* dropped, dates as dd/mm/yyyy text only and amounts without commas.  Its   *)
(* diagnostics are the strings "Row n: message", kept here as (n, message).  *)

\* lines 73-80: datetime.strptime(str(x), '%d/%m/%Y')
LegacyDateMessages(x) ==
    IF IsNA(x) THEN <<"Date is empty.">>
    ELSE IF ParsesAsDate(PyStr(x), "/") THEN <<>>
    ELSE <<"Invalid date format.">>

\* lines 93-108: float(x) of a frame value
FloatOf(x) ==
    CASE x.t \in {"int", "float"} -> [kind |-> "num", val |-> x.v]
      [] x.t = "nan" -> [kind |-> "nan", val |-> 0]
      [] x.t = "str" -> ParseFloat(x.s)
      [] OTHER -> [kind |-> "error", val |-> 0]

LegacyAmountMessages(x) ==
    LET amt == FloatOf(x)
        s   == PyStr(x)
    IN  IF amt.kind = "error" THEN <<"Invalid amount.">>
        ELSE IF amt.kind # "nan" /\ amt.val <= 0 THEN <<"Invalid amount.">>
        ELSE IF Contains(s, ".") /\ Len(AfterLast(s, ".")) > 3
            THEN <<"Invalid amount.">>
        ELSE <<>>

LegacyRowMessages(r) ==
    LegacyDateMessages(r["Date"]) \o NameMessages(r["Name"])
        \o TypeMessages(r["Type"]) \o LegacyAmountMessages(r["Amount"])
        \o CategoryMessages(r["Category"])

RECURSIVE LegacyDiagnostics(_, _)
LegacyDiagnostics(data, idx) ==
    IF idx >= Len(data) THEN <<>>
    ELSE [k \in 1..Len(LegacyRowMessages(data[idx + 1])) |->
             Diag(idx + 1, LegacyRowMessages(data[idx + 1])[k])]
            \o LegacyDiagnostics(data, idx + 1)

\* a missing column is reported at line 68; with a data row, row['Date'] ...
\* then raises KeyError in the loop, which line 119 catches
modules_validate_file(f) ==
    IF ~f.readable
    THEN ReturnErrors(ErrorReading("InvalidFileException"), "InvalidFileException")
    ELSE LET df == DataFrame(f.headers, f.rows)
         IN  IF MissingColumns(df) # <<>>
             THEN IF Len(df.data) > 0
                  THEN ReturnErrors(ErrorReading("KeyError"), "KeyError")
                  ELSE ReturnErrors(MissingColumns(df), "")
             ELSE IF LegacyDiagnostics(df.data, 0) # <<>>
                  THEN ReturnErrors(LegacyDiagnostics(df.data, 0), "")
                  ELSE ReturnValid(df)

\* is_valid_income, logic.py lines 24-33: float(income) > 0, False when the
\* conversion fails.  An income is a number or the text of an entry field.
is_valid_income(income) ==
    LET val == IF income.t = "num" THEN [kind |-> "num", val |-> income.v]
               ELSE IF income.t = "str" THEN ParseFloat(income.s)
               ELSE [kind |-> "error", val |-> 0]
    IN  val.kind \in {"num", "inf"} /\ val.val > 0

\* float(income) of a valid income
IncomeValue(income) ==
    IF income.t = "num" THEN income.v ELSE ParseFloat(income.s).val

----------------------------------------------------------------------------
(* analyze_data, lines 149-180.  A frame is the validated table: its rows    *)
(* and the dtypes of its columns.                                            *)

UpperCase == <<"A", "B", "C", "D", "E", "F", "G", "H", "I", "J", "K", "L", "M",
               "N", "O", "P", "Q", "R", "S", "T", "U", "V", "W", "X", "Y", "Z">>
LowerCase == <<"a", "b", "c", "d", "e", "f", "g", "h", "i", "j", "k", "l", "m",
               "n", "o", "p", "q", "r", "s", "t", "u", "v", "w", "x", "y", "z">>

\* str.lower(), character by character
LowerChar(c) ==
    IF \E i \in 1..Len(UpperCase) : UpperCase[i] = c
    THEN LowerCase[CHOOSE i \in 1..Len(UpperCase) : UpperCase[i] = c]
    ELSE c
str_lower(s) == [i \in 1..Len(s) |-> LowerChar(s[i])]

\* the characters of the model in code point order, and s < t on Python strs
CodeOrder ==
    <<" ", "!", ",", "-", ".", "/", "0", "1", "2", "3", "4", "5", "6", "7", "8",
      "9", ":", "<", ">">> \o UpperCase \o LowerCase
Code(c) == CHOOSE i \in 1..Len(CodeOrder) : CodeOrder[i] = c
RECURSIVE TextLess(_, _)
TextLess(s, t) ==
    IF Len(t) = 0 THEN FALSE
    ELSE IF Len(s) = 0 THEN TRUE
    ELSE IF s[1] = t[1] THEN TextLess(Tail(s), Tail(t))
    ELSE Code(s[1]) < Code(t[1])

NoFrame == [data |-> <<>>, dtypes |-> NoDtypes]

\* the frame a valid result of the validator holds
FrameOf(res) == [data |-> res.table, dtypes |-> res.dtypes]

\* line 163, `.str`: the accessor raises AttributeError on a column that is
\* not of dtype object
StrAccessorRaises(frame) == frame.dtypes["Category"] # "object"

LowerCategory_Kept(frame) == frame

\* line 163: df['Category'] = df['Category'].str.lower(), made on the caller's
\* frame; a value that is not a str becomes NaN
LowerCategory(frame) ==
    [frame EXCEPT !.data = [i \in 1..Len(frame.data) |->
        [frame.data[i] EXCEPT !["Category"] =
            IF @.t = "str" THEN [t |-> "str", s |-> str_lower(@.s), v |-> 0]
            ELSE [t |-> "nan", s |-> <<>>, v |-> 0]]]]

IntValue(n) == [t |-> "int", s |-> <<>>, v |-> n]

\* a + b on two Python objects of an object column: numbers add, strs
\* concatenate, a number and a str raise TypeError
ObjAdd(a, b) ==
    IF a.t = "str" /\ b.t = "str"
    THEN [exc |-> "", val |-> [t |-> "str", s |-> a.s \o b.s, v |-> 0]]
    ELSE IF a.t # "str" /\ b.t # "str"
    THEN [exc |-> "",
          val |-> [t |-> IF "float" \in {a.t, b.t} THEN "float" ELSE "int",
                   s |-> <<>>, v |-> a.v + b.v]]
    ELSE [exc |-> "TypeError", val |-> IntValue(0)]

\* the sum of the values of one group: missing values are skipped; a numeric
\* column sums to a number of its dtype, an object column is added up left to
\* right with +, starting from its first value
RECURSIVE ObjectSum(_)
ObjectSum(vals) ==
    IF Len(vals) = 0 THEN [exc |-> "", val |-> IntValue(0)]
    ELSE IF Len(vals) = 1 THEN [exc |-> "", val |-> vals[1]]
    ELSE LET head == ObjectSum(SubSeq(vals, 1, Len(vals) - 1))
         IN  IF head.exc # "" THEN head ELSE ObjAdd(head.val, vals[Len(vals)])

RECURSIVE NumberSum(_)
NumberSum(vals) ==
    IF Len(vals) = 0 THEN 0 ELSE vals[1].v + NumberSum(Tail(vals))

SumGroup(vals, dtype) ==
    LET present == SelectSeq(vals, LAMBDA x : ~IsNA(x))
    IN  IF dtype = "object" THEN ObjectSum(present)
        ELSE [exc |-> "",
              val |-> [t |-> IF dtype = "float64" THEN "float" ELSE "int",
                       s |-> <<>>, v |-> NumberSum(present)]]

\* the keys of a groupby, in sorted order (rows with a missing key are left out)
RECURSIVE SortKeys(_)
SortKeys(keys) ==
    IF keys = {} THEN <<>>
    ELSE LET m == CHOOSE x \in keys : \A y \in keys \ {x} : TextLess(x, y)
         IN  <<m>> \o SortKeys(keys \ {m})

GroupKeys(data, col) ==
    SortKeys({data[i][col].s : i \in {j \in 1..Len(data) : data[j][col].t = "str"}})

\* lines 166 and 176: groupby(col)['Amount'].sum(), a Series indexed by the
\* sorted keys, or the exception of a sum
GroupSum(data, col, dtype) ==
    LET keys  == GroupKeys(data, col)
        group(k) == SelectSeq(data, LAMBDA r : r[col].t = "str" /\ r[col].s = k)
        sums  == [i \in 1..Len(keys) |->
                     SumGroup([j \in 1..Len(group(keys[i])) |->
                                  group(keys[i])[j]["Amount"]], dtype)]
    IN  IF \E i \in 1..Len(keys) : sums[i].exc # ""
        THEN [exc |-> "TypeError", dtype |-> dtype, items |-> <<>>]
        ELSE [exc |-> "", dtype |-> dtype,
              items |-> [i \in 1..Len(keys) |->
                            [key |-> keys[i], val |-> sums[i].val]]]

\* lines 167-169: buckets.get(key, 0)
SeriesGet(series, key) ==
    IF \E i \in 1..Len(series.items) : series.items[i].key = key
    THEN series.items[CHOOSE i \in 1..Len(series.items) :
                         series.items[i].key = key].val
    ELSE IntValue(0)

\* line 172: df[df['Type'] == 'Wants']
WantsRows_AllRows(data) == data
WantsRows(data) ==
    SelectSeq(data, LAMBDA r : r["Type"].t = "str" /\ r["Type"].s = Wants)

TopN == 5

\* line 177, Series.nlargest(5): TypeError on an object Series; else the n
\* largest values in descending order, equal values in index order
RECURSIVE Largest(_, _)
Largest(items, n) ==
    IF n = 0 \/ Len(items) = 0 THEN <<>>
    ELSE LET i == CHOOSE i \in 1..Len(items) :
                    /\ \A j \in 1..Len(items) : items[j].val.v <= items[i].val.v
                    /\ \A j \in 1..(i - 1) : items[j].val.v < items[i].val.v
         IN  <<items[i]>>
                \o Largest(SubSeq(items, 1, i - 1)
                              \o SubSeq(items, i + 1, Len(items)), n - 1)

nlargest(series, n) ==
    IF series.dtype = "object" THEN [exc |-> "TypeError", items |-> <<>>]
    ELSE [exc |-> "", items |-> Largest(series.items, n)]

NoAnalysis ==
    [status |-> "none", exc |-> "", needs |-> IntValue(0), wants |-> IntValue(0),
     savings |-> IntValue(0), top_wants |-> <<>>, df |-> NoFrame]
AnalysisRaised(exc, frame) ==
    [status |-> "raised", exc |-> exc, needs |-> IntValue(0),
     wants |-> IntValue(0), savings |-> IntValue(0), top_wants |-> <<>>,
     df |-> frame]

\* the call: its outcome, the four values it returns, and the caller's frame
\* as the call leaves it
analyze_data(frame, income) ==
    IF StrAccessorRaises(frame) THEN AnalysisRaised("AttributeError", frame)
    ELSE LET df      == LowerCategory(frame)
             dtype   == df.dtypes["Amount"]
             buckets == GroupSum(df.data, "Type", dtype)
             sums    == GroupSum(WantsRows(df.data), "Category", dtype)
             top     == nlargest(sums, TopN)
         IN  IF buckets.exc # "" THEN AnalysisRaised(buckets.exc, df)
             ELSE IF sums.exc # "" THEN AnalysisRaised(sums.exc, df)
             ELSE IF top.exc # "" THEN AnalysisRaised(top.exc, df)
             ELSE [status |-> "returned", exc |-> "",
                   needs |-> SeriesGet(buckets, Needs),
                   wants |-> SeriesGet(buckets, Wants),
                   savings |-> SeriesGet(buckets, Savings),
                   top_wants |-> top.items,
                   df |-> df]

----------------------------------------------------------------------------
(* The two front-ends: the desktop window (src/app.py) and the web page      *)
(* (src/web_app.py).  A front-end holds the income entered, the most recent  *)
(* upload, the state of its Analyze button, and the number of calls of       *)
(* analyze_data it made with the frame of the last one.                      *)

NoUpload == [present |-> FALSE, file |-> NoFile, big |-> FALSE]
Upload(f, big) == [present |-> TRUE, file |-> f, big |-> big]
NoData == [set |-> FALSE, frame |-> NoFrame]

\* app.py lines 27-30 and 70: no income, no data, the button disabled
DesktopStart ==
    [app |-> "desktop", income |-> StrCell(<<>>), latest |-> NoUpload,
     validated_data |-> NoData, enabled |-> FALSE, started |-> 0, on |-> NoFrame]

\* app.py lines 102-115, with a file chosen in the dialog
upload_file_KeepsButton(u, f) ==
    LET r == modules_validate_file(f)
    IN  IF r.valid
        THEN [u EXCEPT !.latest = Upload(f, FALSE),
                       !.validated_data = [set |-> TRUE, frame |-> FrameOf(r)],
                       !.enabled = TRUE]
        ELSE [u EXCEPT !.latest = Upload(f, FALSE)]
upload_file(u, f) ==
    LET r == modules_validate_file(f)
    IN  IF r.valid
        THEN [u EXCEPT !.latest = Upload(f, FALSE),
                       !.validated_data = [set |-> TRUE, frame |-> FrameOf(r)],
                       !.enabled = TRUE]
        ELSE [u EXCEPT !.latest = Upload(f, FALSE), !.enabled = FALSE]

\* app.py lines 117-125: the command of the Analyze button, up to the call of
\* analyze_data, which works on self.validated_data itself
analyze(u) ==
    IF \/ ~u.validated_data.set
       \/ Len(u.validated_data.frame.data) = 0
       \/ ~is_valid_income(u.income)
    THEN u
    ELSE [u EXCEPT !.started = @ + 1,
                   !.on = u.validated_data.frame,
                   !.validated_data.frame =
                       analyze_data(u.validated_data.frame,
                                    IncomeValue(u.income)).df]

\* web_app.py lines 177-195: the sidebar income starts at 2000
WebStart ==
    [app |-> "web", income |-> NumCell(2000 * Scale), latest |-> NoUpload,
     validated_data |-> NoData, enabled |-> FALSE, started |-> 0, on |-> NoFrame]

\* web_app.py lines 233-257: one run of the page script parses and validates
\* the file in the uploader when the income is valid, a file is there and it
\* is not over the size limit
ParseUpload(u) ==
    IF is_valid_income(u.income) /\ u.latest.present /\ ~u.latest.big
    THEN validate_file(u.latest.file)
    ELSE NoResult

\* web_app.py lines 297-321: the rest of the run.  The Analyze button is
\* enabled when the file was accepted (line 297); in the run that follows a
\* press of the button the table just validated goes to analyze_data (line 304)
ShowPage(u, r, pressed) ==
    [u EXCEPT !.enabled = r.valid,
              !.started = IF pressed /\ r.valid THEN @ + 1 ELSE @,
              !.on = IF pressed /\ r.valid THEN FrameOf(r) ELSE @]

----------------------------------------------------------------------------
(* load_currencies and get_currency_symbol, src/src/finance_app/logic.py     *)
(* lines 12-40.  functools.lru_cache looks the key up, and on a miss calls   *)
(* the function without holding a lock and stores the result afterwards, so  *)
(* callers that overlap each run the function; a raised exception is not     *)
(* stored.  A list is an object: its identity and its items.                 *)

NoValue == [id |-> 0, items |-> <<>>]
\* json.load(f) of the currency file: a new list at every read
CurrencyItems ==
    <<[code |-> "USD", symbol |-> "$"], [code |-> "EUR", symbol |-> "E"]>>
JsonLoad(mode, n) ==
    [id |-> n, items |-> IF mode = "ok" THEN CurrencyItems ELSE <<>>]

\* a caller: where it is in load_currencies, the list it holds, how many
\* calls it has made, and the symbol it looked up last
NoCaller ==
    [pc |-> "idle", val |-> NoValue, calls |-> 0, exc |-> "", symbol |-> ""]

\* the wrapper of lru_cache up to the call of the function: a hit returns the
\* stored list
CacheLookup(c, t) ==
    IF c.cache.id # 0
    THEN [c EXCEPT !.callers[t].pc = "returned", !.callers[t].val = c.cache,
                   !.callers[t].calls = @ + 1, !.callers[t].exc = ""]
    ELSE [c EXCEPT !.callers[t].pc = "loading", !.callers[t].calls = @ + 1]

\* lines 15-22, the body: open and json.load; a missing file gives [], any
\* other error (unreadable file, invalid JSON) is raised to the caller
ReadCurrencies(c, t) ==
    IF c.mode = "unreadable"
    THEN [c EXCEPT !.reads = @ + 1, !.callers[t].pc = "raised",
                   !.callers[t].exc = "OSError"]
    ELSE [c EXCEPT !.reads = @ + 1, !.callers[t].pc = "loaded",
                   !.callers[t].val = JsonLoad(c.mode, c.reads + 1)]

\* the wrapper after the call: the result is stored unless the key was
\* stored meanwhile, and the caller gets its own result
CacheStore(c, t) ==
    [c EXCEPT !.cache = IF @.id = 0 THEN c.callers[t].val ELSE @,
              !.callers[t].pc = "returned"]

\* get_currency_symbol, lines 35-40
get_currency_symbol(currencies, code) ==
    LET found == {i \in 1..Len(currencies) : currencies[i].code = code}
    IN  IF found = {} THEN "None"
        ELSE currencies[CHOOSE i \in found : \A j \in found : i <= j].symbol

----------------------------------------------------------------------------
(* get_ai_insights and its fallback, src/src/finance_app/ai.py.  A text is   *)
(* either one of the ten templates with the figures it embeds, or the text   *)
(* the external service returned.                                            *)

\* a / b rounded to the nearest integer, ties to even (b > 0)
RoundDiv(a, b) ==
    LET q == a \div b
        r == a % b
    IN  IF 2 * r < b THEN q
        ELSE IF 2 * r > b THEN q + 1
        ELSE IF q % 2 = 0 THEN q ELSE q + 1

\* lines 35-37, `x / income * 100 if income else 0` as formatted by :.1f, in
\* tenths of a percent
Pct(x, income) ==
    IF income = 0 THEN 0
    ELSE IF income > 0 THEN RoundDiv(x * 1000, income)
    ELSE RoundDiv((0 - x) * 1000, 0 - income)

\* line 38: the first three entries as percentages of income; v / income
\* raises ZeroDivisionError when income is 0 and there is an entry
TopWantsText(top_wants, income) ==
    IF Len(top_wants) = 0 THEN [exc |-> "", items |-> <<>>]
    ELSE IF income = 0 THEN [exc |-> "ZeroDivisionError", items |-> <<>>]
    ELSE [exc |-> "",
          items |-> [i \in 1..Min(3, Len(top_wants)) |->
                        [key |-> top_wants[i].key,
                         pct |-> Pct(top_wants[i].val, income)]]]

\* lines 64-83
TemplateIndex_Inclusive(score) ==
    CASE score <= 40 -> 0
      [] score > 40 /\ score <= 55 -> 1
      [] score > 55 /\ score <= 65 -> 2
      [] score > 65 /\ score <= 70 -> 3
      [] score > 70 /\ score <= 75 -> 4
      [] score > 75 /\ score <= 80 -> 5
      [] score > 80 /\ score <= 85 -> 6
      [] score > 85 /\ score <= 90 -> 7
      [] score > 90 /\ score <= 95 -> 8
      [] OTHER -> 9
TemplateIndex(score) ==
    CASE score < 40 -> 0
      [] score >= 40 /\ score < 55 -> 1
      [] score >= 55 /\ score < 65 -> 2
      [] score >= 65 /\ score < 70 -> 3
      [] score >= 70 /\ score < 75 -> 4
      [] score >= 75 /\ score < 80 -> 5
      [] score >= 80 /\ score < 85 -> 6
      [] score >= 85 /\ score < 90 -> 7
      [] score >= 90 /\ score < 95 -> 8
      [] OTHER -> 9

NoText == [kind |-> "none", idx |-> 0, pcts |-> <<>>, top |-> <<>>, ext |-> ""]
ExternalText(t) ==
    [kind |-> "external", idx |-> 0, pcts |-> <<>>, top |-> <<>>, ext |-> t]

\* lines 40-61: templates 3 and 8 embed the top wants, the others the three
\* percentages
TemplateText(idx, pcts, top) ==
    [kind |-> "template", idx |-> idx,
     pcts |-> IF idx \in {3, 8} THEN <<>> ELSE pcts,
     top |-> IF idx \in {3, 8} THEN top ELSE <<>>,
     ext |-> ""]

\* _build_fallback_advice, lines 30-85
build_fallback_advice(score, income, needs, wants, savings, top_wants) ==
    LET top == TopWantsText(top_wants, income)
    IN  IF top.exc # "" THEN [exc |-> top.exc, text |-> NoText]
        ELSE [exc |-> "",
              text |-> TemplateText(TemplateIndex(score),
                                    <<Pct(needs, income), Pct(wants, income),
                                      Pct(savings, income)>>,
                                    top.items)]

NoInsights ==
    [status |-> "none", score |-> 0, advice |-> NoText, requests |-> 0,
     exc |-> ""]
InsightsRaised(exc) ==
    [status |-> "raised", score |-> 0, advice |-> NoText, requests |-> 0,
     exc |-> exc]

\* lines 116, 243, 277, 282: `return score, ...`
ReturnedScore_FromText(score, advice) ==
    IF advice.kind = "external" /\ advice.ext = "Health Score: 5" THEN 5
    ELSE score
ReturnedScore(score, advice) == score

\* suspended at the await of line 250, the request sent
InsightsWaiting ==
    [status |-> "waiting", score |-> 0, advice |-> NoText, requests |-> 1,
     exc |-> ""]

InsightsReturned(score, advice, requests) ==
    [status |-> "returned", score |-> ReturnedScore(score, advice),
     advice |-> advice, requests |-> requests, exc |-> ""]

\* lines 250-260: one awaited call of generate_content, in no loop
RequestsFor_Retry(service) ==
    IF service.kind \in {"network_error", "timeout", "empty"} THEN 2 ELSE 1
RequestsFor(service) == 1

\* get_ai_insights, lines 88-282.  env says whether the google-genai package
\* was imported, whether the figures can be written as JSON (line 229),
\* whether GEMINI_API_KEY is set, and what the external service does.
get_ai_insights(a, top_wants, env) ==
    LET sc == calculate_health_score(a.income, a.needs, a.wants, a.savings)
        fb == build_fallback_advice(sc.value, a.income, a.needs, a.wants,
                                    a.savings, top_wants)
    IN  IF sc.status # "returned" THEN InsightsRaised("ZeroDivisionError")
        ELSE IF fb.exc # "" THEN InsightsRaised(fb.exc)
        ELSE IF ~env.genai THEN InsightsReturned(sc.value, fb.text, 0)
        ELSE IF ~env.serializable THEN InsightsReturned(sc.value, fb.text, 0)
        ELSE IF ~env.key THEN InsightsReturned(sc.value, fb.text, 0)
        ELSE IF env.service.kind = "client_error"
            THEN InsightsReturned(sc.value, fb.text, 0)
        ELSE IF env.service.kind \in {"network_error", "timeout"}
            THEN InsightsReturned(sc.value, fb.text, RequestsFor(env.service))
        ELSE IF env.service.kind = "text" /\ env.service.text # ""
            THEN InsightsReturned(sc.value, ExternalText(env.service.text),
                                  RequestsFor(env.service))
        ELSE InsightsReturned(sc.value, fb.text, RequestsFor(env.service))

----------------------------------------------------------------------------
(* The session of the web page, web_app.py lines 177-182 and 297-446: what   *)
(* a press of Analyze stores and what the results section shows.             *)

\* lines 177-182: analysis_done is False and nothing is stored
NoSession ==
    [analysis_done |-> FALSE, stored |-> FALSE, needs |-> 0, wants |-> 0,
     savings |-> 0, health_score |-> 0, advice |-> NoText, error |-> ""]

\* line 310 passes income, needs, wants, savings, top_wants.to_dict() and
\* currency; get_ai_insights (ai.py line 88) has five parameters
ArgumentsPassed == 6
ParametersTaken == 5

\* the call of line 310: Python raises TypeError before the body runs when the
\* number of positional arguments is not the number of parameters
CallInsights(income, needs, wants, savings, top_wants, env) ==
    IF ArgumentsPassed # ParametersTaken THEN InsightsRaised("TypeError")
    ELSE get_ai_insights([income |-> income, needs |-> needs, wants |-> wants,
                          savings |-> savings], top_wants, env)

\* top_wants.to_dict()
ToDict(top_wants) ==
    [i \in 1..Len(top_wants) |->
        [key |-> top_wants[i].key, val |-> top_wants[i].val.v]]

\* line 304: analyze_data runs in the run that follows a press of Analyze,
\* on the table parse_and_validate_file gave in that run
AnalyzeCall(income, r, kind) ==
    IF kind = "press" /\ r.valid THEN analyze_data(FrameOf(r), income)
    ELSE NoAnalysis

\* the aggregate a holds three numbers
Aggregated(a) ==
    /\ a.status = "returned"
    /\ a.needs.t # "str" /\ a.wants.t # "str" /\ a.savings.t # "str"

\* line 307
ScoreCall(income, a) ==
    IF Aggregated(a)
    THEN calculate_health_score(income, a.needs.v, a.wants.v, a.savings.v)
    ELSE NoCall

\* line 310
AdviceCall(income, a, env) ==
    IF Aggregated(a)
    THEN CallInsights(income, a.needs.v, a.wants.v, a.savings.v,
                      ToDict(a.top_wants), env)
    ELSE NoInsights

\* lines 299-329: the body of the Analyze button, given what its three calls
\* produced.  Every exception is caught and shown as an error, and the session
\* is then left as it was.
AnalyzeBody(s, r, a, health, i) ==
    IF ~r.valid THEN [s EXCEPT !.error = "Please fix validation errors"]
    ELSE IF health.status # "returned" \/ i.status # "returned"
    THEN [s EXCEPT !.error = "Unexpected error during analysis"]
    ELSE [s EXCEPT !.analysis_done = TRUE,
                   !.stored = TRUE,
                   !.needs = a.needs.v,
                   !.wants = a.wants.v,
                   !.savings = a.savings.v,
                   !.health_score = health.value,
                   !.advice = i.advice,
                   !.error = ""]

\* lines 334-335: the results section is displayed
ResultsDisplayed(s) == s.analysis_done /\ s.stored

\* lines 365 and 382: the score the results section shows
ScoreShown(s) == s.health_score

\* lines 443-446: Start New Analysis
StartNewAnalysis(s) == [s EXCEPT !.analysis_done = FALSE, !.error = ""]

\* the session after one run of the page script that follows the event `kind`
RunSession(s, r, a, health, i, kind) ==
    CASE kind = "press" -> AnalyzeBody(s, r, a, health, i)
      [] kind = "new" -> StartNewAnalysis(s)
      [] OTHER -> [s EXCEPT !.error = ""]

----------------------------------------------------------------------------
(* The preview of the web page, web_app.py lines 100-115 and 258-286. *)

\* pd.read_excel, line 104: the rows under the header as they stand in the
\* sheet; only empty rows at the end of the sheet are trimmed
RECURSIVE PreviewRows(_)
PreviewRows(rows) ==
    IF Len(rows) > 0 /\ \A c \in DOMAIN rows[Len(rows)] : rows[Len(rows)][c].t = "none"
    THEN PreviewRows(SubSeq(rows, 1, Len(rows) - 1))
    ELSE rows

\* lines 260-265
error_rows(res) ==
    IF ~res.valid /\ res.errors # <<>>
    THEN {res.errors[i].row : i \in 1..Len(res.errors)}
    ELSE {}

\* lines 277-278: name is the 0-based index of the preview row
highlight_row(name, res) == (name + 1) \in error_rows(res)

----------------------------------------------------------------------------
(* The workbooks the validator is run on. *)

\* a workbook has at most MaxRows data rows
MaxRows == 2

Blank == StrCell(<<" ", " ">>)
LongText == StrCell([i \in 1..(MaxTextLen + 1) |-> "a"])

DateCells ==
    {StrCell(<<"1", "5", "/", "0", "1", "/", "2", "0", "2", "6">>),
     StrCell(<<"1", "-", "2", "-", "2", "0", "2", "6">>),
     DateTimeCell,
     NumCell(46023 * Scale),
     StrCell(<<"2", "0", "2", "6", "-", "0", "1", "-", "0", "1">>),
     StrCell(<<"3", "1", "/", "0", "2", "/", "2", "0", "2", "6">>),
     NoneCell, Blank}
NameCells ==
    {StrCell(<<"R", "e", "n", "t">>),
     StrCell(<<"C", "a", "r", " ", "l", "o", "a", "n">>),
     StrCell(<<"R", "e", "!">>),
     NumCell(5 * Scale), LongText, NoneCell, Blank}
TypeCells ==
    {StrCell(Needs), StrCell(Wants), StrCell(Savings),
     StrCell(<<"n", "e", "e", "d", "s">>), NoneCell, Blank}
AmountCells ==
    {NumCell(1000 * Scale), NumCell(25000),
     StrCell(<<"1", ",", "0", "0", "0", ".", "5", "0">>),
     StrCell(<<"2", "0", "0">>),
     NumCell(11234), NumCell(0), NumCell(0 - 5 * Scale),
     StrCell(<<"a", "b", "c">>),
     StrCell(<<"1", ".", "2", "3", "4", "5">>),
     StrCell(<<"5", ".", "1", "2", "3", " ">>),
     NoneCell, Blank}
CategoryCells ==
    {StrCell(<<"F", "o", "o", "d">>), StrCell(<<"F", "O", "O", "D">>),
     NumCell(7 * Scale), LongText, NoneCell, Blank}

CellsOf(col) ==
    CASE col = "Date" -> DateCells
      [] col = "Name" -> NameCells
      [] col = "Type" -> TypeCells
      [] col = "Amount" -> AmountCells
      [] col = "Category" -> CategoryCells

\* a row that passes, and a second one written differently
BaseRow ==
    [Date |-> StrCell(<<"1", "5", "/", "0", "1", "/", "2", "0", "2", "6">>),
     Name |-> StrCell(<<"R", "e", "n", "t">>),
     Type |-> StrCell(Needs),
     Amount |-> NumCell(1000 * Scale),
     Category |-> StrCell(<<"F", "o", "o", "d">>)]
OtherRow ==
    [Date |-> DateTimeCell,
     Name |-> StrCell(<<"C", "a", "r", " ", "l", "o", "a", "n">>),
     Type |-> StrCell(Wants),
     Amount |-> StrCell(<<"1", ",", "0", "0", "0", ".", "5", "0">>),
     Category |-> StrCell(<<"F", "O", "O", "D">>)]
\* a row that fails every check
BadRow ==
    [Date |-> StrCell(<<"2", "0", "2", "6", "-", "0", "1", "-", "0", "1">>),
     Name |-> StrCell(<<"R", "e", "!">>),
     Type |-> StrCell(<<"n", "e", "e", "d", "s">>),
     Amount |-> NumCell(11234),
     Category |-> NumCell(7 * Scale)]

\* BaseRow with one cell replaced by any cell of its column
OneOffRows ==
    {[BaseRow EXCEPT ![c] = x] : <<c, x>> \in
        UNION {{<<c, x>> : x \in CellsOf(c)} : c \in RequiredSet}}
\* mixes of OtherRow's and BadRow's cells: none, every two, three, four and
\* all five cells bad
MixedRows ==
    {[c \in RequiredSet |-> IF c \in bad THEN BadRow[c] ELSE OtherRow[c]] :
        bad \in {b \in SUBSET RequiredSet : Cardinality(b) \in {0, 2, 5}}
                \cup {{"Date", "Name", "Type"}, RequiredSet \ {"Type"}}}
\* rows with nothing in them: empty cells, blank text, or both
BlankRows ==
    {[c \in RequiredSet |-> NoneCell], [c \in RequiredSet |-> Blank],
     [c \in RequiredSet |-> IF c \in {"Date", "Amount"} THEN Blank ELSE NoneCell]}
\* a blank Type among other failures
BlankTypeRow == [BadRow EXCEPT !["Type"] = Blank, !["Date"] = NoneCell]

RowPool == OneOffRows \cup MixedRows \cup BlankRows \cup {BlankTypeRow}

SeqsUpTo(S, n) == UNION {[1..k -> S] : k \in 0..n}

\* header rows other than exactly the five required columns
OtherHeaders ==
    {RequiredSet \cup {"Notes"}, RequiredSet \ {"Category"},
     RequiredSet \ {"Date", "Type"}, {"A"}}

\* a pool row under another header row: missing columns dropped, extra ones
\* filled with a note
UnderHeaders(r, h) ==
    [c \in h |-> IF c \in RequiredSet THEN r[c]
                 ELSE StrCell(<<"n", "o", "t", "e">>)]

Files ==
    {[readable |-> FALSE, headers |-> {}, rows |-> <<>>],
     [readable |-> TRUE, headers |-> {}, rows |-> <<>>]}
    \cup {[readable |-> TRUE, headers |-> RequiredSet, rows |-> t] :
            t \in SeqsUpTo(RowPool, MaxRows)}
    \cup {[readable |-> TRUE, headers |-> h,
           rows |-> [i \in 1..Len(t) |-> UnderHeaders(t[i], h)]] :
            h \in OtherHeaders,
            t \in SeqsUpTo({BaseRow, BadRow, BlankTypeRow,
                            [c \in RequiredSet |-> NoneCell]}, MaxRows)}

----------------------------------------------------------------------------
(* The validator as a state machine: a workbook is chosen, then validated. *)

NoArgs == [income |-> 0, needs |-> 0, wants |-> 0, savings |-> 0]
NoService == [kind |-> "none", text |-> ""]
NoCurrencies ==
    [mode |-> "none", cache |-> NoValue, reads |-> 0, callers |-> <<>>]
NoFallback == [score |-> 0, status |-> "none", exc |-> "", text |-> NoText]
NoExternal ==
    [top_wants |-> <<>>,
     env |-> [genai |-> FALSE, serializable |-> FALSE, key |-> FALSE,
              service |-> NoService]]
NoFrontEnd ==
    [app |-> "none", income |-> NumCell(0), latest |-> NoUpload,
     validated_data |-> NoData, enabled |-> FALSE, started |-> 0, on |-> NoFrame]

InitValidate ==
    /\ file \in Files
    /\ vres = NoResult
    /\ args = NoArgs
    /\ out = NoCall
    /\ agg = NoAnalysis
    /\ ext = NoExternal /\ ins = NoInsights /\ ui = NoFrontEnd
    /\ adv = NoFallback
    /\ cur = NoCurrencies
    /\ sess = NoSession
    /\ again = NoAnalysis

ValidateFile ==
    /\ vres.status = "none"
    /\ vres' = validate_file(file)
    /\ UNCHANGED <<args, out, file, agg, ext, ins, ui, adv, cur, sess, again>>

NextValidate == ValidateFile

SpecValidate == InitValidate /\ [][NextValidate]_vars

----------------------------------------------------------------------------
(* The scorer as a state machine: the arguments are chosen, then the call is *)
(* made.                                                                     *)

InitScore ==
    /\ args \in [income : Incomes, needs : Amounts, wants : Amounts,
                 savings : SavingsAmounts]
    /\ out = NoCall
    /\ file = NoFile
    /\ vres = NoResult
    /\ agg = NoAnalysis
    /\ ext = NoExternal /\ ins = NoInsights /\ ui = NoFrontEnd
    /\ adv = NoFallback
    /\ cur = NoCurrencies
    /\ sess = NoSession
    /\ again = NoAnalysis

CalculateHealthScore ==
    /\ out.status = "none"
    /\ out' = calculate_health_score(args.income, args.needs, args.wants,
                                     args.savings)
    /\ UNCHANGED <<args, file, vres, agg, ext, ins, ui, adv, cur, sess, again>>

NextScore == CalculateHealthScore

SpecScore == InitScore /\ [][NextScore]_vars

----------------------------------------------------------------------------
(* The aggregator as a state machine: a workbook is chosen and validated,    *)
(* and a valid result is handed to analyze_data, which works on the table of *)
(* the result itself.                                                        *)

\* a table has at most MaxCategories categories of wants, and the mixed
\* tables at most MaxTableRows rows
MaxCategories == 6
MaxTableRows == 3

Cat(i) == <<"C", "a", "t">> \o NatStr(i)
CAT(i) == <<"C", "A", "T">> \o NatStr(i)

ARow(type, amount, category) ==
    [Date |-> StrCell(<<"1", "/", "1", "/", "2", "0", "2", "6">>),
     Name |-> StrCell(<<"I", "t", "e", "m">>),
     Type |-> StrCell(type),
     Amount |-> amount,
     Category |-> StrCell(category)]

\* per category: no row, or one Wants row of 10 or of 20
SlotAmounts == {0, 10 * Scale, 20 * Scale}
RECURSIVE SlotRows(_, _)
SlotRows(choice, i) ==
    IF i > MaxCategories THEN <<>>
    ELSE (IF choice[i] = 0 THEN <<>>
          ELSE <<ARow(Wants, NumCell(choice[i]), Cat(i))>>)
            \o SlotRows(choice, i + 1)
WideTables == {SlotRows(choice, 1) : choice \in [1..MaxCategories -> SlotAmounts]}

\* rows of all three types, amounts written as whole numbers, fractions and
\* text, categories differing in case only, an empty amount and a blank row
AnalysisRowPool ==
    {ARow(Needs, NumCell(1000 * Scale), Cat(1)),
     ARow(Wants, NumCell(10 * Scale), Cat(1)),
     ARow(Wants, NumCell(25000), CAT(1)),
     ARow(Wants, StrCell(<<"2", "0", "0">>), Cat(2)),
     ARow(Savings, NumCell(20 * Scale), Cat(2)),
     ARow(Wants, NoneCell, Cat(3)),
     [c \in RequiredSet |-> Blank]}
MixedTables == SeqsUpTo(AnalysisRowPool, MaxTableRows)

AnalysisFiles ==
    {[readable |-> TRUE, headers |-> RequiredSet, rows |-> t] :
        t \in WideTables \cup MixedTables}
AnalysisIncomes == {1000 * Scale, 2500 * Scale}

InitAnalyze ==
    /\ file \in AnalysisFiles
    /\ vres = NoResult
    /\ args \in {[NoArgs EXCEPT !.income = i] : i \in AnalysisIncomes}
    /\ out = NoCall
    /\ agg = NoAnalysis
    /\ ext = NoExternal /\ ins = NoInsights /\ ui = NoFrontEnd
    /\ adv = NoFallback
    /\ cur = NoCurrencies
    /\ sess = NoSession
    /\ again = NoAnalysis

AnalyzeData ==
    /\ vres.status = "returned" /\ vres.valid
    /\ agg.status = "none"
    /\ agg' = analyze_data(FrameOf(vres), args.income)
    /\ vres' = [vres EXCEPT !.table = agg'.df.data]
    /\ UNCHANGED <<args, out, file, ext, ins, ui, adv, cur, sess, again>>

\* a second call on the table the first call left, app.py lines 117-125 with
\* the Analyze button pressed again: the income may have been changed
AnalyzeAgain ==
    /\ agg.status # "none"
    /\ again.status = "none"
    /\ \E income \in AnalysisIncomes :
          /\ again' = analyze_data(FrameOf(vres), income)
          /\ vres' = [vres EXCEPT !.table = again'.df.data]
    /\ UNCHANGED <<args, out, file, agg, ext, ins, ui, adv, cur, sess>>

NextAnalyze == ValidateFile \/ AnalyzeData \/ AnalyzeAgain

SpecAnalyze == InitAnalyze /\ [][NextAnalyze]_vars

----------------------------------------------------------------------------
(* The advice step as a state machine: the four figures, the top wants and   *)
(* the environment are chosen, then get_ai_insights is called.               *)

ExternalTexts == {"Cut your wants by 5%.", "Health Score: 5"}
ServiceOutcomes ==
    {[kind |-> k, text |-> ""] :
        k \in {"client_error", "network_error", "timeout", "none", "no_text",
               "empty"}}
    \cup {[kind |-> "text", text |-> t] : t \in ExternalTexts}
Environments ==
    [genai : BOOLEAN, serializable : BOOLEAN, key : BOOLEAN,
     service : ServiceOutcomes]
TopWantsChoices ==
    {<<>>,
     <<[key |-> "food", val |-> 6]>>,
     <<[key |-> "food", val |-> 6], [key |-> "fun", val |-> 4],
       [key |-> "bars", val |-> 2], [key |-> "misc", val |-> 1]>>}
InsightArgs ==
    [income : Incomes, needs : {0, 4, 10, MaxAmount}, wants : {0, 3, 6},
     savings : {0 - MaxDebt, 0, 2, 4}]

InitInsights ==
    /\ args \in InsightArgs
    /\ ext \in [top_wants : TopWantsChoices, env : Environments]
    /\ ins = NoInsights
    /\ out = NoCall
    /\ file = NoFile
    /\ vres = NoResult
    /\ agg = NoAnalysis
    /\ ui = NoFrontEnd
    /\ adv = NoFallback
    /\ cur = NoCurrencies
    /\ sess = NoSession
    /\ again = NoAnalysis

GetAiInsights ==
    /\ ins.status = "none"
    /\ ins' = get_ai_insights(args, ext.top_wants, ext.env)
    /\ UNCHANGED <<args, out, file, vres, agg, ext, ui, adv, cur, sess, again>>

NextInsights == GetAiInsights

SpecInsights == InitInsights /\ [][NextInsights]_vars

----------------------------------------------------------------------------
(* The fallback as a state machine: a score, the four figures and the top    *)
(* wants are chosen, then _build_fallback_advice is called.  The score is    *)
(* a parameter of its own: the function does not compute it.                 *)

\* scores from MinScore below 0 to MaxScore above 100
MinScore == 0 - 3
MaxScore == 103
ScoreInputs == MinScore..MaxScore
FallbackArgs ==
    [income : Incomes, needs : {0, 10}, wants : {0, 6},
     savings : {0 - MaxDebt, 4}]

InitFallback ==
    /\ args \in FallbackArgs
    /\ ext \in [top_wants : TopWantsChoices, env : {NoExternal.env}]
    /\ adv \in [score : ScoreInputs, status : {"none"}, exc : {""},
                text : {NoText}]
    /\ out = NoCall
    /\ file = NoFile
    /\ vres = NoResult
    /\ agg = NoAnalysis
    /\ ins = NoInsights
    /\ ui = NoFrontEnd
    /\ cur = NoCurrencies
    /\ sess = NoSession
    /\ again = NoAnalysis

BuildFallbackAdvice ==
    /\ adv.status = "none"
    /\ LET r == build_fallback_advice(adv.score, args.income, args.needs,
                                      args.wants, args.savings, ext.top_wants)
       IN  adv' = [adv EXCEPT !.status = IF r.exc = "" THEN "returned"
                                       ELSE "raised",
                            !.exc = r.exc,
                            !.text = r.text]
    /\ UNCHANGED <<args, out, file, vres, agg, ext, ins, ui, cur, sess, again>>

NextFallback == BuildFallbackAdvice

SpecFallback == InitFallback /\ [][NextFallback]_vars

----------------------------------------------------------------------------
(* The currency list as a state machine: MaxCallers threads call             *)
(* load_currencies, each up to MaxCalls times, and look symbols up in the    *)
(* list they got; the steps of different callers interleave freely.          *)

MaxCallers == 2
MaxCalls == 2
Callers == 1..MaxCallers
CurrencyCodes == {"USD", "EUR", "GBP"}

InitCurrencies ==
    /\ cur \in [mode : {"ok", "missing", "unreadable"}, cache : {NoValue},
                 reads : {0}, callers : {[t \in Callers |-> NoCaller]}]
    /\ args = NoArgs
    /\ out = NoCall
    /\ file = NoFile
    /\ vres = NoResult
    /\ agg = NoAnalysis
    /\ ext = NoExternal
    /\ ins = NoInsights
    /\ ui = NoFrontEnd
    /\ adv = NoFallback
    /\ sess = NoSession
    /\ again = NoAnalysis

\* a caller enters load_currencies
LoadCurrenciesCall ==
    /\ \E t \in Callers :
          /\ cur.callers[t].pc \in {"idle", "returned", "raised"}
          /\ cur.callers[t].calls < MaxCalls
          /\ cur' = CacheLookup(cur, t)
    /\ UNCHANGED <<args, out, file, vres, agg, ext, ins, ui, adv, sess, again>>

\* a caller that missed runs the function body
LoadCurrenciesRead ==
    /\ \E t \in Callers :
          /\ cur.callers[t].pc = "loading"
          /\ cur' = ReadCurrencies(cur, t)
    /\ UNCHANGED <<args, out, file, vres, agg, ext, ins, ui, adv, sess, again>>

\* the wrapper stores and returns
LoadCurrenciesReturn ==
    /\ \E t \in Callers :
          /\ cur.callers[t].pc = "loaded"
          /\ cur' = CacheStore(cur, t)
    /\ UNCHANGED <<args, out, file, vres, agg, ext, ins, ui, adv, sess, again>>

\* a caller looks a code up in the list it holds
GetCurrencySymbol ==
    /\ \E t \in Callers, code \in CurrencyCodes :
          /\ cur.callers[t].pc = "returned"
          /\ cur' = [cur EXCEPT !.callers[t].symbol =
                        get_currency_symbol(cur.callers[t].val.items, code)]
    /\ UNCHANGED <<args, out, file, vres, agg, ext, ins, ui, adv, sess, again>>

NextCurrencies ==
    \/ LoadCurrenciesCall
    \/ LoadCurrenciesRead
    \/ LoadCurrenciesReturn
    \/ GetCurrencySymbol

SpecCurrencies == InitCurrencies /\ [][NextCurrencies]_vars

----------------------------------------------------------------------------
(* The advice step in two steps: the coroutine runs to its first return or   *)
(* to the await of the generation request, and resumes when the request      *)
(* returns, fails or times out.                                              *)

RequestArgs ==
    [income : {0, 20}, needs : {10, MaxAmount}, wants : {0, 6},
     savings : {0 - MaxDebt, 4}]

InitRequest ==
    /\ args \in RequestArgs
    /\ ext \in [top_wants : TopWantsChoices, env : Environments]
    /\ ins = NoInsights
    /\ out = NoCall
    /\ file = NoFile
    /\ vres = NoResult
    /\ agg = NoAnalysis
    /\ ui = NoFrontEnd
    /\ adv = NoFallback
    /\ cur = NoCurrencies
    /\ sess = NoSession
    /\ again = NoAnalysis

\* lines 107-250: up to a return without a request, an exception, or the await
StartInsights ==
    /\ ins.status = "none"
    /\ LET r == get_ai_insights(args, ext.top_wants, ext.env)
       IN  ins' = IF r.requests > 0 THEN InsightsWaiting ELSE r
    /\ UNCHANGED <<args, out, file, vres, agg, ext, ui, adv, cur, sess, again>>

\* lines 250-282: the awaited request ends and the coroutine runs to its return
AwaitResponse ==
    /\ ins.status = "waiting"
    /\ ins' = get_ai_insights(args, ext.top_wants, ext.env)
    /\ UNCHANGED <<args, out, file, vres, agg, ext, ui, adv, cur, sess, again>>

NextRequest == StartInsights \/ AwaitResponse

\* an awaited request returns, fails or times out: the coroutine is resumed
SpecRequest ==
    InitRequest /\ [][NextRequest]_vars /\ WF_vars(AwaitResponse)

----------------------------------------------------------------------------
(* The front-ends as state machines: the user uploads workbooks, edits the   *)
(* income and presses Analyze, in any order.                                 *)

\* a front-end starts at most MaxAnalyses analyses
MaxAnalyses == 2

UploadFiles ==
    {[readable |-> TRUE, headers |-> RequiredSet, rows |-> <<BaseRow>>],
     [readable |-> TRUE, headers |-> RequiredSet,
      rows |-> <<ARow(Wants, NumCell(10 * Scale), CAT(1))>>],
     [readable |-> TRUE, headers |-> RequiredSet, rows |-> <<OtherRow>>],
     [readable |-> TRUE, headers |-> RequiredSet, rows |-> <<BadRow>>],
     [readable |-> TRUE, headers |-> RequiredSet, rows |-> <<>>],
     [readable |-> TRUE, headers |-> RequiredSet \ {"Category"}, rows |-> <<>>],
     [readable |-> FALSE, headers |-> {}, rows |-> <<>>]}
DesktopIncomes == {StrCell(<<"2", "0", "0", "0">>), StrCell(<<"a", "b", "c">>)}
WebIncomes == {NumCell(2000 * Scale), NumCell(0)}

InitFrontEnd ==
    /\ ui \in {DesktopStart, WebStart}
    /\ args = NoArgs
    /\ out = NoCall
    /\ file = NoFile
    /\ vres = NoResult
    /\ agg = NoAnalysis
    /\ ext = NoExternal
    /\ ins = NoInsights
    /\ adv = NoFallback
    /\ cur = NoCurrencies
    /\ sess = NoSession
    /\ again = NoAnalysis

DesktopSetIncome ==
    /\ ui.app = "desktop"
    /\ \E v \in DesktopIncomes : ui' = [ui EXCEPT !.income = v]
    /\ UNCHANGED <<args, out, file, vres, agg, ext, ins, adv, cur, sess, again>>

DesktopUpload ==
    /\ ui.app = "desktop"
    /\ \E f \in UploadFiles : ui' = upload_file(ui, f)
    /\ UNCHANGED <<args, out, file, vres, agg, ext, ins, adv, cur, sess, again>>

\* the button runs its command only while it is enabled
DesktopAnalyze ==
    /\ ui.app = "desktop"
    /\ ui.enabled
    /\ ui.started < MaxAnalyses
    /\ ui' = analyze(ui)
    /\ UNCHANGED <<args, out, file, vres, agg, ext, ins, adv, cur, sess, again>>

\* What the user can do on the web page: change the sidebar income (the
\* uploader is not part of a run with an invalid income and may lose its
\* file), put a file in the uploader, which is shown only with a valid income
\* (line 233), press Analyze, which cannot be pressed while disabled, or
\* press Start New Analysis, which is part of the results section.
WebEvents(u, s) ==
    {[kind |-> "income", income |-> v, latest |-> l] :
        v \in WebIncomes, l \in {u.latest, NoUpload}}
    \cup {[kind |-> "upload", income |-> u.income, latest |-> Upload(f, big)] :
            f \in {g \in UploadFiles : is_valid_income(u.income)},
            big \in BOOLEAN}
    \cup {[kind |-> "press", income |-> u.income, latest |-> u.latest] :
            k \in {n \in {u.started} : u.enabled /\ n < MaxAnalyses}}
    \cup {[kind |-> "new", income |-> u.income, latest |-> u.latest] :
            k \in {n \in {u.started} : ResultsDisplayed(s)}}

\* every change of a widget runs the page script again: u is the page with
\* the widgets as the event left them, r what parse_and_validate_file gives
\* in this run, a, health and i what analyze_data, calculate_health_score and
\* get_ai_insights give when the run calls them
WebRerun ==
    /\ ui.app = "web"
    /\ \E e \in WebEvents(ui, sess) :
          /\ e.kind = "income" /\ is_valid_income(e.income)
                => e.latest = ui.latest
          /\ \E u \in {[ui EXCEPT !.income = e.income, !.latest = e.latest]} :
             \E income \in {IncomeValue(u.income)} :
             \E r \in {ParseUpload(u)} :
             \E a \in {AnalyzeCall(income, r, e.kind)} :
             \E health \in {ScoreCall(income, a)} :
             \E i \in {AdviceCall(income, a, ext.env)} :
                /\ ui' = ShowPage(u, r, e.kind = "press")
                /\ sess' = RunSession(sess, r, a, health, i, e.kind)
    /\ UNCHANGED <<args, out, file, vres, agg, ext, ins, adv, cur, again>>

NextFrontEnd ==
    \/ DesktopSetIncome \/ DesktopUpload \/ DesktopAnalyze
    \/ WebRerun

SpecFrontEnd == InitFrontEnd /\ [][NextFrontEnd]_vars

----------------------------------------------------------------------------
(* Properties of calculate_health_score, checked under SpecScore. *)

ScoreOf(income, needs, wants, savings) ==
    calculate_health_score(income, needs, wants, savings).value

\* C1: for every income > 0 and non-negative needs, wants and savings the call
\* returns an integer between 0 and 100, however large the overspend.
C1_ScoreInRange ==
    (out.status # "none" /\ args.income > 0 /\ args.savings >= 0)
        => (out.status = "returned" /\ out.value \in 0..100)

\* the weighted formula is far below zero and the call returned
C1_Witness ==
    /\ out.status = "returned"
    /\ args.income > 0 /\ args.savings >= 0
    /\ WeightedScore(args.income, args.needs, args.wants, args.savings)
          < 0 - 100 * args.income
    /\ 4 * args.needs > 3 * args.income

\* C2: whenever savings < 0 the call returns exactly 0, whatever income, needs
\* and wants are (needs above 75% of income and income <= 0 included).
C2_NegativeSavingsZero ==
    (out.status # "none" /\ args.savings < 0)
        => (out.status = "returned" /\ out.value = 0)

\* negative savings with needs above 75% of a positive income, where the
\* weighted formula alone is positive
C2_Witness ==
    /\ out.status = "returned"
    /\ args.savings < 0 /\ args.income > 0
    /\ 4 * args.needs > 3 * args.income
    /\ WeightedScore(args.income, args.needs, args.wants, args.savings) > 0

\* C3: for income > 0, needs/income <= 0.5, wants/income <= 0.3 and
\* savings/income >= 0.2 give the score 100.
C3_ConservativeIsPerfect ==
    (/\ out.status # "none"
     /\ args.income > 0
     /\ 10 * args.needs <= 5 * args.income
     /\ 10 * args.wants <= 3 * args.income
     /\ 10 * args.savings >= 2 * args.income)
        => (out.status = "returned" /\ out.value = 100)

\* a split strictly more conservative than 50/30/20 in all three buckets
C3_Witness ==
    /\ out.status = "returned"
    /\ args.income > 0
    /\ 10 * args.needs < 5 * args.income
    /\ 10 * args.wants < 3 * args.income
    /\ 10 * args.savings > 2 * args.income

\* C4: for a fixed income > 0 the score never increases when needs is raised,
\* when wants is raised, or when savings is lowered, the other two held fixed.
C4_MonotoneInRisk ==
    (out.status = "returned" /\ args.income > 0) =>
        /\ \A n2 \in Amounts : n2 >= args.needs =>
              ScoreOf(args.income, n2, args.wants, args.savings) <= out.value
        /\ \A w2 \in Amounts : w2 >= args.wants =>
              ScoreOf(args.income, args.needs, w2, args.savings) <= out.value
        /\ \A s2 \in SavingsAmounts : s2 <= args.savings =>
              ScoreOf(args.income, args.needs, args.wants, s2) <= out.value

\* a call exactly on the 75% needs threshold with savings exactly 0, from which
\* one more unit of needs and one less unit of savings both lower the score
C4_Witness ==
    /\ out.status = "returned"
    /\ args.income > 0
    /\ 4 * args.needs = 3 * args.income
    /\ args.savings = 0
    /\ ScoreOf(args.income, args.needs + 1, args.wants, args.savings) < out.value
    /\ ScoreOf(args.income, args.needs, args.wants, args.savings - 1) < out.value

\* C5: for every income <= 0 the call returns 0 without raising and without
\* having divided by income.
C5_NonPositiveIncomeZero ==
    (out.status # "none" /\ args.income <= 0)
        => (out.status = "returned" /\ out.value = 0 /\ out.divs = 0)

\* income is exactly zero and there is spending to divide
C5_Witness ==
    /\ out.status = "returned"
    /\ args.income = 0
    /\ args.needs > 0 /\ args.wants > 0

----------------------------------------------------------------------------
(* The field rules of the data model, stated on the cells of the workbook as *)
(* the user typed them: what the diagnostics of validate_file are compared   *)
(* with.                                                                     *)

CellEmpty(cell) == cell.t = "none" \/ (cell.t = "str" /\ IsBlankText(cell.s))
RowBlank(r) == \A c \in RequiredSet : CellEmpty(r[c])

DateRule(cell) ==
    IF CellEmpty(cell) THEN <<"Date is empty.">>
    ELSE IF \/ cell.t \in {"datetime", "num"}
            \/ cell.t = "str" /\ (ParsesAsDate(cell.s, "/") \/ ParsesAsDate(cell.s, "-"))
         THEN <<>> ELSE <<"Invalid date format.">>

NameRule(cell) ==
    IF /\ ~CellEmpty(cell) /\ cell.t = "str"
       /\ Len(cell.s) <= MaxTextLen
       /\ IsAlnum(Remove(cell.s, " "))
    THEN <<>> ELSE <<"Invalid name.">>

TypeRule(cell) ==
    IF cell \in {StrCell(Needs), StrCell(Wants), StrCell(Savings)}
    THEN <<>> ELSE <<"Invalid type.">>

\* a positive decimal number, commas allowed, at most 3 digits after the point
AmountRule(cell) ==
    IF \/ /\ cell.t = "num" /\ cell.v > 0 /\ cell.v % 10 = 0
       \/ /\ cell.t = "str"
          /\ ParseFloat(Remove(cell.s, ",")).kind = "num"
          /\ ParseFloat(Remove(cell.s, ",")).val > 0
          /\ (Contains(cell.s, ".") => Len(AfterLast(cell.s, ".")) <= 3)
    THEN <<>> ELSE <<"Invalid amount.">>

CategoryRule(cell) ==
    IF ~CellEmpty(cell) /\ cell.t = "str" /\ Len(cell.s) <= MaxTextLen
    THEN <<>> ELSE <<"Invalid category.">>

RuleMessages(r) ==
    DateRule(r["Date"]) \o NameRule(r["Name"]) \o TypeRule(r["Type"])
        \o AmountRule(r["Amount"]) \o CategoryRule(r["Category"])

NonBlankRows(f) == SelectSeq(f.rows, LAMBDA r : ~RowBlank(r))

\* the diagnostics the rules call for: per non-blank row, numbered from 1, one
\* per failing rule in the order Date, Name, Type, Amount, Category
RECURSIVE ExpectedFrom(_, _)
ExpectedFrom(rows, n) ==
    IF n > Len(rows) THEN <<>>
    ELSE [k \in 1..Len(RuleMessages(rows[n])) |-> Diag(n, RuleMessages(rows[n])[k])]
            \o ExpectedFrom(rows, n + 1)
ExpectedDiagnostics(f) == ExpectedFrom(NonBlankRows(f), 1)

HasTable(f) == f.readable /\ RequiredSet \subseteq f.headers

\* the frame value x is the workbook cell it was read from
SameValue(x, cell) ==
    CASE cell.t = "none" -> IsNA(x)
      [] cell.t = "str" -> x.t = "str" /\ x.s = cell.s
      [] cell.t = "num" -> x.t \in {"int", "float"} /\ x.v = cell.v
      [] cell.t = "datetime" -> x.t = "datetime"

\* the table is exactly these workbook rows, in order, on the five columns
SameTable(table, rows) ==
    /\ Len(table) = Len(rows)
    /\ \A i \in 1..Len(table) :
          /\ DOMAIN table[i] = RequiredSet
          /\ \A c \in RequiredSet : SameValue(table[i][c], rows[i][c])

----------------------------------------------------------------------------
(* Properties of validate_file, checked under SpecValidate. *)

\* C6: for a workbook with the five columns the diagnostics are exactly, row by
\* row and in the order Date, Name, Type, Amount, Category, one per field rule
\* that a non-blank row fails; no failure suppresses another.
C6_ExhaustivePerRow ==
    (vres.status = "returned" /\ HasTable(file))
        => vres.errors = ExpectedDiagnostics(file)

\* C7: a workbook lacking a required column is invalid and its diagnostics
\* contain (0, "Missing required columns.").
C7_MissingColumnsDiagnostic ==
    (vres.status = "returned" /\ file.readable
        /\ ~(RequiredSet \subseteq file.headers))
        => /\ ~vres.valid
           /\ \E i \in 1..Len(vres.errors) :
                 /\ vres.errors[i].row = 0
                 /\ vres.errors[i].msg = "Missing required columns."

\* C8: validate_file never raises; it returns (True, table) with no diagnostic
\* or (False, non-empty list of (row_number, message)); a failure while reading
\* or processing is reported as the single diagnostic (0, "Error reading file: ...").
C8_NeverRaises ==
    vres.status # "none" =>
        /\ vres.status = "returned"
        /\ vres.valid => vres.errors = <<>>
        /\ ~vres.valid =>
              /\ Len(vres.errors) > 0
              /\ \A i \in 1..Len(vres.errors) : vres.errors[i].row \in Nat
        /\ Body(file).exc # "" =>
              /\ ~vres.valid
              /\ Len(vres.errors) = 1
              /\ vres.errors[1].row = 0
              /\ vres.errors[1].msg = "Error reading file: "

\* the processing of a readable two-row table with all columns failed
C8_Witness ==
    /\ vres.status = "returned"
    /\ HasTable(file) /\ Len(file.rows) = MaxRows
    /\ Body(file).exc = "TypeError"

\* C9: validate_file returns (True, table) exactly when the five columns are
\* there and every non-blank row passes all five field rules, else (False,
\* non-empty diagnostics); a returned table is the non-blank rows in order.
C9_ValidIffAllRulesPass ==
    (vres.status = "returned" /\ file.readable) =>
        /\ vres.valid <=>
              /\ RequiredSet \subseteq file.headers
              /\ \A i \in 1..Len(file.rows) :
                    RowBlank(file.rows[i]) \/ RuleMessages(file.rows[i]) = <<>>
        /\ ~vres.valid => vres.errors # <<>>
        /\ vres.valid => SameTable(vres.table, NonBlankRows(file))

\* C10: blank rows (every required cell empty or blank text) are dropped
\* without a diagnostic: a table whose other rows all pass stays valid wherever
\* the blank rows are, the returned table has one row per non-blank row, and
\* no row with a non-blank required cell is dropped.
C10_BlankRowsDropped ==
    (vres.status = "returned" /\ HasTable(file)) =>
        /\ (\A i \in 1..Len(NonBlankRows(file)) :
                RuleMessages(NonBlankRows(file)[i]) = <<>>)
              => vres.valid /\ vres.errors = <<>>
        /\ vres.valid => SameTable(vres.table, NonBlankRows(file))

\* a blank row ahead of a passing row: the result is valid with one row
C10_Witness ==
    /\ vres.status = "returned" /\ vres.valid
    /\ HasTable(file)
    /\ Len(file.rows) = MaxRows
    /\ RowBlank(file.rows[1]) /\ ~RowBlank(file.rows[Len(file.rows)])
    /\ \E c \in RequiredSet : file.rows[1][c].t = "str"
    /\ Len(vres.table) = 1

\* C11: a workbook with the five required headers and zero data rows is valid:
\* validate_file returns (True, table) with an empty table and no diagnostic.
C11_EmptyTableValid ==
    (vres.status # "none" /\ HasTable(file) /\ Len(file.rows) = 0)
        => /\ vres.status = "returned"
           /\ vres.valid
           /\ vres.table = <<>>
           /\ vres.errors = <<>>

\* a header row with the five columns and one more, and nothing under it
C11_Witness ==
    /\ vres.status = "returned"
    /\ file.readable /\ RequiredSet \subseteq file.headers
    /\ file.headers # RequiredSet
    /\ Len(file.rows) = 0
    /\ vres.valid

\* the text of a workbook cell as it was typed
CellText(cell) ==
    CASE cell.t = "str" -> cell.s
      [] cell.t = "num" ->
            IF cell.v % Scale = 0 THEN IntStr(cell.v) ELSE FloatStr(cell.v)
      [] OTHER -> <<>>

\* the number of digits after the decimal point of a text (0 without a point)
DecimalDigits(text) ==
    IF Contains(text, ".")
    THEN Len(SelectSeq(AfterLast(text, "."), LAMBDA ch : ch \in Digits))
    ELSE 0

\* the cell holds a number above zero (commas allowed in text)
PositiveValue(cell) ==
    \/ cell.t = "num" /\ cell.v > 0
    \/ /\ cell.t = "str"
       /\ ParseFloat(Remove(cell.s, ",")).kind = "num"
       /\ ParseFloat(Remove(cell.s, ",")).val > 0

HasDiagnostic(n, m) ==
    \E i \in 1..Len(vres.errors) : vres.errors[i] = Diag(n, m)

\* C12: every row whose Amount text has more than 3 digits after the decimal
\* point gets "Invalid amount." even when its value is positive, and a positive
\* amount with 0 to 3 digits after the point gets no amount diagnostic.
C12_DecimalPlaces ==
    (vres.status = "returned" /\ HasTable(file)) =>
        \A n \in 1..Len(NonBlankRows(file)) :
            LET cell == NonBlankRows(file)[n]["Amount"]
            IN  /\ DecimalDigits(CellText(cell)) > 3
                      => HasDiagnostic(n, "Invalid amount.")
                /\ (PositiveValue(cell) /\ DecimalDigits(CellText(cell)) <= 3)
                      => ~HasDiagnostic(n, "Invalid amount.")

\* the uploaded data row at 1-based position n fails the rule that gives m
FailsRule(f, n, m) ==
    /\ n \in 1..Len(f.rows)
    /\ ~RowBlank(f.rows[n])
    /\ \E k \in 1..Len(RuleMessages(f.rows[n])) : RuleMessages(f.rows[n])[k] = m

\* C13: the row number of every row-level diagnostic is the 1-based position
\* of the failing row among the data rows of the uploaded workbook, 0 is used
\* only for defects of the whole table, and the preview row the web page
\* highlights (index + 1 among the diagnostics' numbers) is a failing row.
C13_RowNumbers ==
    vres.status = "returned" =>
        /\ \A i \in 1..Len(vres.errors) :
              IF vres.errors[i].row = 0 THEN ~HasTable(file)
              ELSE FailsRule(file, vres.errors[i].row, vres.errors[i].msg)
        /\ \A k \in 1..Len(PreviewRows(file.rows)) :
              highlight_row(k - 1, vres) =>
                  /\ ~RowBlank(PreviewRows(file.rows)[k])
                  /\ RuleMessages(PreviewRows(file.rows)[k]) # <<>>

----------------------------------------------------------------------------
(* Properties of analyze_data, checked under SpecAnalyze.  The totals the    *)
(* aggregate is compared with are taken from the workbook as it was typed.   *)

\* the amount a workbook cell stands for (text: commas stripped, then parsed)
AmountOf(cell) ==
    CASE cell.t = "num" -> cell.v
      [] cell.t = "str" -> ParseFloat(Remove(cell.s, ",")).val
      [] OTHER -> 0

RECURSIVE TotalAmount(_)
TotalAmount(rows) ==
    IF Len(rows) = 0 THEN 0
    ELSE AmountOf(rows[1]["Amount"]) + TotalAmount(Tail(rows))

RowsOfType(f, type) ==
    SelectSeq(NonBlankRows(f), LAMBDA r : r["Type"] = StrCell(type))

\* the distinct lower-cased categories of the Wants rows, and the summed
\* amount of one of them
WantCategories(f) ==
    {str_lower(RowsOfType(f, Wants)[i]["Category"].s) :
        i \in 1..Len(RowsOfType(f, Wants))}
CategoryTotal(f, c) ==
    TotalAmount(SelectSeq(RowsOfType(f, Wants),
                          LAMBDA r : str_lower(r["Category"].s) = c))

TopKeys == {agg.top_wants[i].key : i \in 1..Len(agg.top_wants)}

RECURSIVE TopTotal(_)
TopTotal(items) ==
    IF Len(items) = 0 THEN 0 ELSE items[1].val.v + TopTotal(Tail(items))

\* C15: top_wants has exactly min(5, k) entries, k the number of distinct
\* lower-cased categories of the Wants rows; they are sorted by summed amount,
\* largest first; every category left out sums to no more than every category
\* kept; rows of type Needs or Savings never contribute.
C15_TopWants ==
    agg.status # "none" =>
        /\ agg.status = "returned"
        /\ Len(agg.top_wants) = Min(5, Cardinality(WantCategories(file)))
        /\ Cardinality(TopKeys) = Len(agg.top_wants)
        /\ \A i \in 1..Len(agg.top_wants) :
              /\ agg.top_wants[i].key \in WantCategories(file)
              /\ agg.top_wants[i].val.v = CategoryTotal(file, agg.top_wants[i].key)
              /\ \A j \in i..Len(agg.top_wants) :
                    agg.top_wants[i].val.v >= agg.top_wants[j].val.v
              /\ \A c \in WantCategories(file) \ TopKeys :
                    CategoryTotal(file, c) <= agg.top_wants[i].val.v

\* C16: Wants rows whose categories differ only in letter case are one entry
\* of top_wants, keyed by the lower-cased category, whose amount is the sum of
\* the amounts of all those rows; every key of top_wants is lower-case.
C16_CaseInsensitive ==
    agg.status # "none" =>
        /\ agg.status = "returned"
        /\ \A i \in 1..Len(agg.top_wants) :
              /\ agg.top_wants[i].key = str_lower(agg.top_wants[i].key)
              /\ agg.top_wants[i].val.v = CategoryTotal(file, agg.top_wants[i].key)
        /\ \A c \in WantCategories(file) :
              Cardinality({i \in 1..Len(agg.top_wants) : agg.top_wants[i].key = c})
                  = IF Cardinality(WantCategories(file)) <= 5 THEN 1
                    ELSE Cardinality({c} \cap TopKeys)

\* C17: for every valid table the call does not raise; a type without rows
\* gives the total 0 for its bucket, and a table without Wants rows (or
\* without rows) gives an empty top_wants.
C17_MissingBuckets ==
    agg.status # "none" =>
        /\ agg.status = "returned"
        /\ Len(RowsOfType(file, Needs)) = 0 => agg.needs = IntValue(0)
        /\ Len(RowsOfType(file, Wants)) = 0 =>
              agg.wants = IntValue(0) /\ agg.top_wants = <<>>
        /\ Len(RowsOfType(file, Savings)) = 0 => agg.savings = IntValue(0)

\* the table is a numeric Amount column with a number in every row
NumericAmounts ==
    /\ vres.dtypes["Amount"] \in {"int64", "float64"}
    /\ \A i \in 1..Len(NonBlankRows(file)) :
          NonBlankRows(file)[i]["Amount"].t = "num"

ValidationOf(u) ==
    IF u.app = "desktop" THEN modules_validate_file(u.latest.file)
    ELSE validate_file(u.latest.file)
LatestAccepted(u) ==
    u.latest.present /\ ~u.latest.big /\ ValidationOf(u).valid
LatestRejected(u) == u.latest.present /\ ~LatestAccepted(u)

\* C14: in both front-ends a step starts an analysis only when the file
\* uploaded last was accepted by the validator, and on the table that
\* validation returned (the very table, whose categories an earlier analysis
\* of it may have put in lower case); while the file uploaded last is
\* rejected the Analyze button is disabled and no analysis starts.
C14_AnalysisOnlyAfterValidation ==
    [][/\ ui'.started # ui.started =>
            /\ LatestAccepted(ui')
            /\ ui.enabled
            /\ LowerCategory(ui'.on)
                 = LowerCategory(FrameOf(ValidationOf(ui')))
       /\ LatestRejected(ui') => ~ui'.enabled /\ ui'.started = ui.started
      ]_vars
\* an analysis ran on an accepted table, then a rejected upload disabled the
\* button while the accepted table is still held
C14_Witness ==
    /\ ui.app = "desktop"
    /\ ui.started >= 1
    /\ LatestRejected(ui)
    /\ ui.validated_data.set
    /\ Len(ui.validated_data.frame.data) > 0
    /\ ~ui.enabled

\* C19: the score get_ai_insights returns is calculate_health_score of the
\* four figures, and with the same four figures every other environment
\* (package, key, what the service does or answers) and every other top wants
\* mapping gives the same returned score.
C19_ScoreNotFromService ==
    ins.status = "returned" =>
        /\ ins.score
             = calculate_health_score(args.income, args.needs, args.wants,
                                      args.savings).value
        /\ \A e \in Environments, t \in TopWantsChoices :
              LET other == get_ai_insights(args, t, e)
              IN  other.status = "returned" => other.score = ins.score
\* the service answered with a text that states another score, the text is
\* returned as the advice and the score is the computed one
C19_Witness ==
    /\ ins.status = "returned"
    /\ ins.advice = ExternalText("Health Score: 5")
    /\ ins.score # 5
    /\ ins.requests = 1

\* the failures of the external generation step
ExternalFailure(env) ==
    \/ ~env.genai
    \/ ~env.key
    \/ env.service.kind
         \in {"client_error", "network_error", "timeout", "none", "no_text",
              "empty"}
ExternalSuccess(env) ==
    /\ env.genai /\ env.serializable /\ env.key
    /\ env.service.kind = "text" /\ env.service.text # ""

\* the fallback of the four figures and the top wants, when it can be built
FallbackOf(a, top_wants) ==
    TemplateText(
        TemplateIndex(calculate_health_score(a.income, a.needs, a.wants,
                                             a.savings).value),
        <<Pct(a.needs, a.income), Pct(a.wants, a.income),
          Pct(a.savings, a.income)>>,
        [i \in 1..Min(3, Len(top_wants)) |->
            [key |-> top_wants[i].key,
             pct |-> Pct(top_wants[i].val, a.income)]])

\* C20: after a call of get_ai_insights in which the external generation
\* step failed, the call returned (no exception) and the advice is the
\* fallback; after a call in which the service answered with a non-empty
\* text, the call returned and the advice is that text.
C20_FallbackOnFailure ==
    ins.status # "none" =>
        /\ ExternalFailure(ext.env) =>
              /\ ins.status = "returned"
              /\ ins.advice = FallbackOf(args, ext.top_wants)
        /\ ExternalSuccess(ext.env) =>
              /\ ins.status = "returned"
              /\ ins.advice = ExternalText(ext.env.service.text)

\* the lower ends of the ranges of templates 1 to 9
RangeStarts == <<40, 55, 65, 70, 75, 80, 85, 90, 95>>
\* the number of range starts a score has reached
RangeOf(score) == Cardinality({i \in 1..Len(RangeStarts) : score >= RangeStarts[i]})

\* C21: when _build_fallback_advice returns, the text is exactly one of the
\* ten templates, the one whose range holds the score (0 below 40, then one
\* more for each of 40, 55, 65, 70, 75, 80, 85, 90, 95 reached); every score
\* falls in exactly one range, a higher score never has a lower index, and a
\* second call with the same inputs gives the same text.
C21_TemplateByScore ==
    adv.status = "returned" =>
        /\ adv.text.kind = "template"
        /\ adv.text.idx \in 0..9
        /\ adv.text.idx = RangeOf(adv.score)
        /\ \A s \in ScoreInputs :
              /\ s >= adv.score => TemplateIndex(s) >= adv.text.idx
              /\ s <= adv.score => TemplateIndex(s) <= adv.text.idx
        /\ adv.text = build_fallback_advice(adv.score, args.income, args.needs,
                                           args.wants, args.savings,
                                           ext.top_wants).text
\* a score on the lower end of a range gets the template of that range, here
\* one that embeds the top wants
C21_Witness ==
    /\ adv.status = "returned"
    /\ adv.score = 65
    /\ adv.text.idx = 3
    /\ Len(adv.text.top) = 3

\* C27: every call of _build_fallback_advice returns a template text, and
\* with income 0 every percentage in it is 0; every call of get_ai_insights
\* with income 0 returns the score 0 and the fallback.
C27_FallbackTotal ==
    /\ adv.status # "none" =>
          /\ adv.status = "returned"
          /\ adv.text.kind = "template"
          /\ args.income = 0 =>
                /\ \A i \in 1..Len(adv.text.pcts) : adv.text.pcts[i] = 0
                /\ \A i \in 1..Len(adv.text.top) : adv.text.top[i].pct = 0
    /\ ins.status # "none" /\ args.income = 0 =>
          /\ ins.status = "returned"
          /\ ins.score = 0
          /\ ins.advice.kind = "template"

\* C22: whatever the interleaving of the callers, the currency file has been
\* read at most once, every caller that holds a list holds the one list of
\* the cache, and a lookup of a symbol leaves the cache and every held list
\* as they were.
C22_LoadedOnce ==
    [][/\ cur'.reads <= 1
       /\ \A t \in DOMAIN cur'.callers :
             cur'.callers[t].pc = "returned"
                => cur'.callers[t].val = cur'.cache
       /\ (\E t \in DOMAIN cur.callers :
              cur'.callers[t].symbol # cur.callers[t].symbol)
             => /\ cur'.cache = cur.cache
                /\ \A t \in DOMAIN cur.callers :
                      cur'.callers[t].val = cur.callers[t].val
      ]_vars

\* The reference score of an income > 0, in exact arithmetic on numerators
\* over RefDen(income): Dn, Dw, Ds in thousandths of the income, raw on
\* ten-thousandths.
RefDen(income) == 10 * 1000 * income
RefRaw(income, needs, wants, savings) ==
    100 * (10 * 1000 * income
             - (2 * Max(0, 1000 * needs - 500 * income)
                + 5 * Max(0, 1000 * wants - 300 * income)
                + 6 * Max(0, 200 * income - 1000 * savings)))
RefClamp(income, x) ==
    IF x < 0 THEN 0
    ELSE IF x > 100 * RefDen(income) THEN 100 * RefDen(income)
    ELSE x
Reference(income, needs, wants, savings) ==
    IF savings < 0 THEN 0
    ELSE IF 100 * needs > 75 * income
         THEN RefClamp(income, RefRaw(income, needs, wants, savings)
                                 - 10 * RefDen(income)) \div RefDen(income)
         ELSE RefClamp(income, RefRaw(income, needs, wants, savings))
                 \div RefDen(income)

C24_BlankTypeIsRowLevel ==
    (vres.status = "returned" /\ HasTable(file)) =>
        \A n \in 1..Len(NonBlankRows(file)) :
            CellEmpty(NonBlankRows(file)[n]["Type"]) =>
                /\ ~vres.valid
                /\ \A i \in 1..Len(vres.errors) : vres.errors[i].row # 0
                /\ HasDiagnostic(n, "Invalid type.")
                /\ \A k \in 1..Len(RuleMessages(NonBlankRows(file)[n])) :
                      HasDiagnostic(n, RuleMessages(NonBlankRows(file)[n])[k])

\* C25: a call of get_ai_insights has issued at most one generation request,
\* and none when the package is missing or the key is unset; a call waiting
\* for its request does return a (score, advice) pair once the request has
\* ended, without a second request.
C25_OneRequestThenReturn ==
    /\ [](/\ ins.requests <= 1
          /\ (~ext.env.genai \/ ~ext.env.key) => ins.requests = 0)
    /\ (ins.status = "waiting")
          ~> (ins.status = "returned" /\ ins.requests = 1
                /\ ins.advice.kind \in {"template", "external"})
\* a request that timed out was not sent again and the call returned the
\* fallback
C25_Witness ==
    /\ ins.status = "returned"
    /\ ext.env.service.kind = "timeout"
    /\ ins.requests = 1
    /\ ins.advice.kind = "template"

\* C26: for every table validate_file accepted, text amounts with commas
\* included, analyze_data returned, and needs, wants and savings are numbers,
\* not negative, each the sum of the parsed amounts of the rows of its type.
C26_AcceptedTablesAggregate ==
    agg.status # "none" =>
        /\ agg.status = "returned"
        /\ \A b \in {agg.needs, agg.wants, agg.savings} :
              b.t \in {"int", "float"} /\ b.v >= 0
        /\ agg.needs.v = TotalAmount(RowsOfType(file, Needs))
        /\ agg.wants.v = TotalAmount(RowsOfType(file, Wants))
        /\ agg.savings.v = TotalAmount(RowsOfType(file, Savings))

\* C28: on the web page a press of Analyze with a valid income and an
\* accepted file ends with analysis_done = True and the result, the health
\* score and the advice stored in the session, so that the next run displays
\* the results section.
C28_AnalysisStored ==
    [][(ui.app = "web" /\ ui'.started # ui.started) =>
          /\ sess'.analysis_done
          /\ sess'.stored
          /\ sess'.advice.kind \in {"template", "external"}
          /\ ResultsDisplayed(sess')
      ]_vars

\* the table `after` is the table `before` with each Category lower-cased: the
\* same rows in the same order, a missing Category still missing, and Date,
\* Name, Type and Amount as they were
OnlyCategoryLowered(before, after) ==
    /\ Len(after) = Len(before)
    /\ \A n \in 1..Len(before) :
          /\ \A c \in RequiredSet \ {"Category"} : after[n][c] = before[n][c]
          /\ IF before[n]["Category"].t = "str"
             THEN after[n]["Category"] = StrCell(str_lower(before[n]["Category"].s))
             ELSE IsNA(before[n]["Category"]) /\ IsNA(after[n]["Category"])

\* two calls of analyze_data ended the same way with the same four values
SameOutcome(a, b) ==
    /\ a.status = b.status /\ a.exc = b.exc
    /\ a.needs = b.needs /\ a.wants = b.wants /\ a.savings = b.savings
    /\ a.top_wants = b.top_wants

\* C29: analyze_data is idempotent on its table.  A second call on the same
\* table, with the same or another income, ends as the first did, with the
\* same needs, wants, savings and top_wants; a call changes the caller's table
\* only by lower-casing each Category, so the second call changes nothing.
C29_AnalyzeIdempotent ==
    [][/\ agg'.status # agg.status =>
            OnlyCategoryLowered(vres.table, vres'.table)
       /\ again'.status # again.status =>
            /\ SameOutcome(again', agg)
            /\ OnlyCategoryLowered(vres.table, vres'.table)
            /\ vres'.table = vres.table
            /\ again'.df = agg.df
      ]_vars

\* a second call returned the top wants of a table that holds two spellings of
\* one category among its Wants rows
C29_Witness ==
    /\ again.status = "returned"
    /\ again.top_wants # <<>>
    /\ \E m, n \in 1..Len(file.rows) :
          /\ file.rows[m]["Type"] = StrCell(Wants) /\ file.rows[n]["Type"] = StrCell(Wants)
          /\ file.rows[m]["Category"].t = "str" /\ file.rows[n]["Category"].t = "str"
          /\ file.rows[m]["Category"].s # file.rows[n]["Category"].s
          /\ str_lower(file.rows[m]["Category"].s) = str_lower(file.rows[n]["Category"].s)

====
